---- MODULE Spec2Model ----
(***************************************************************************)
(* Read-only volume and filesystem layer of the shadowos bootloader.       *)
(*                                                                         *)
(* Part 1: the volume byte reader with its one-block cache (volume_read,   *)
(*         cache_block).                                                   *)
(* Part 2: the partition table parsers (gpt_get_part, mbr_get_part,        *)
(*         mbr_get_logical_part, part_get).                                *)
(*                                                                         *)
(* Machine integers.  TLC's integers are 32 bits wide, so the C widths are *)
(* scaled: uint64_t is arithmetic modulo 2^30, uint32_t modulo 2^15 and a  *)
(* non-negative int is below 2^14.  The scaling keeps the relations the    *)
(* code relies on: the product of two 32-bit values, of an int and a       *)
(* 32-bit value, and of a 32-bit value and 512 all fit the wide type.      *)
(*                                                                         *)
(* Bytes.  A byte of the disk is identified by where it is stored: the     *)
(* pair (sector, offset in the sector), sectors counted in units of the    *)
(* volume's sector_size from the start of the device.  A buffer is a       *)
(* sequence of segments <<sector, offset, length>>; sector FRESH is memory *)
(* that the allocator handed out and no disk read has written.             *)
(***************************************************************************)
EXTENDS Integers, Sequences, FiniteSets, TLC

VARIABLES
    volume,     \* struct volume under test (geometry and cache fields)
    refvol,     \* the same volume in the reference run, whose cache is emptied before every call
    last,       \* the last volume_read call: arguments, return value, buffer, block loads
    reflast,    \* the same call in the reference run
    disk,       \* reference run: how the device behaved in every call so far, or VARIED
    probe,      \* the multi-byte read that the 1-byte reads are compared with
    pstep,      \* the last 1-byte read of the comparison
    ptable,     \* partition-table contents of the parent disk
    pget,       \* the last part_get call: arguments, result, parser trace, child volume
    fatfs,      \* the FAT image: context and contents of the volume
    fopen,      \* the last fat32_open call: path, result, handle, chain walk
    fread,      \* the last fat32_read call on the open handle
    iso,        \* the ISO9660 image: volume, directories, flag of the host
    iopen,      \* the last iso9660_open call: path, result, handle, last search
    iread,      \* the last iso9660_read call on the open handle
    gcall,      \* get_absolute_path: the arguments and the memory of the output buffer
    gres,       \* get_absolute_path: what the last call returned and wrote
    vindex,     \* volume_index: the registered volumes
    vlook,      \* the last lookup in the volume index: arguments, result, index at the call
    media,      \* the ISO9660 volumes, by the number that stands for their struct volume
    contexts,   \* the static list contexts of the ISO9660 driver, the head first
    live,       \* the blocks that ext_mem_alloc handed out and pmm_free has not taken back
    handles,    \* the open ISO9660 file handles
    mcall,      \* the last iso9660_open or iso9660_close: arguments, result, memory events
    bpb,        \* the BIOS parameter block of a volume
    finit,      \* the fat32_init_context call on it: return value and context
    nconv       \* the last fat32_filename_to_8_3 call: name, return value, dest

vars == <<volume, refvol, last, reflast, disk, probe, pstep, ptable, pget,
          fatfs, fopen, fread, iso, iopen, iread, gcall, gres,
          vindex, vlook, media, contexts, live, handles, mcall, bpb, finit, nconv>>

\* the variables of the filesystem drivers, which the volume reader and the
\* partition parsers leave alone
FatIdle == UNCHANGED <<fatfs, fopen, fread>>
IsoIdle == UNCHANGED <<iso, iopen, iread>>
PathIdle == UNCHANGED <<gcall, gres>>
IndexIdle == UNCHANGED <<vindex, vlook>>
ContextIdle == UNCHANGED <<media, contexts, live, handles, mcall>>
FormatIdle == UNCHANGED <<bpb, finit, nconv>>
FsIdle == FatIdle /\ IsoIdle /\ PathIdle

-----------------------------------------------------------------------------
(* Machine arithmetic *)

U64 == 2^30
U64Max == U64 - 1
U32 == 2^15
U32Max == U32 - 1
IntMax == 2^14 - 1

\* __builtin_mul_overflow on uint64_t: TRUE iff a * b does not fit
mul_overflow(a, b) == a # 0 /\ b > U64Max \div a

\* __builtin_add_overflow on uint64_t
add_overflow(a, b) == a > U64Max - b

Min(a, b) == IF a < b THEN a ELSE b
Max(a, b) == IF a > b THEN a ELSE b

\* What a call does with memory, in order: ext_mem_alloc ("alloc") and
\* pmm_free ("free") of a block, and reads of a block ("read").  A block is
\* named after the pointer that holds it, with a number where the call
\* allocates several; its size is a count of units.
ev(op, name, n, count, unit) ==
    [op |-> op, block |-> <<name, n>>, size |-> <<count, unit>>]

\* the events of the n-th call of a function within a call
numbered(mem, n) == [i \in DOMAIN mem |-> [mem[i] EXCEPT !.block[2] = n]]

\* the blocks that the events leave allocated
left(mem) ==
    { mem[i].block : i \in { i \in 1..Len(mem) :
                               /\ mem[i].op = "alloc"
                               /\ \A j \in (i + 1)..Len(mem) :
                                     ~(mem[j].op = "free" /\ mem[j].block = mem[i].block) } }

\* the size a block was allocated with
size_of(mem, block) ==
    mem[CHOOSE i \in 1..Len(mem) : mem[i].op = "alloc" /\ mem[i].block = block].size

-----------------------------------------------------------------------------
(* Part 1: volume_read and cache_block *)

CACHE_NOT_READY == 0
CACHE_READY == 1

DISK_SUCCESS == "DISK_SUCCESS"
DISK_NO_MEDIA == "DISK_NO_MEDIA"
DISK_FAILURE == "DISK_FAILURE"
DiskReturns == {DISK_SUCCESS, DISK_NO_MEDIA, DISK_FAILURE}

\* the 512-byte unit in which first_sect is counted
SECT_UNIT == 512

\* provenance of a cache sector no disk read has written (ext_mem_alloc memory)
FRESH == -1

\* bounds of the model
MaxXfer == 2        \* largest fastest_xfer_size
DiskSects == 5      \* sectors on the device; a request past the end fails

\* (uint64_t)-1 in sect_count: the size of the volume is unknown
SECT_COUNT_UNKNOWN == U64Max

\* The disk primitive.  d is the device while one volume_read call lasts:
\* d.ans is its answer per request size and d.sects its size in sectors; a
\* request that reaches past the end of the device fails.  A request that
\* does not succeed leaves the buffer as it was.
disk_read_sectors(d, sector, count) ==
    IF d.ans[count] = DISK_NO_MEDIA THEN DISK_NO_MEDIA
    ELSE IF sector + count > d.sects THEN DISK_FAILURE
    ELSE d.ans[count]

\* mutant of xfer_loop: DISK_NO_MEDIA is retried like any other error
RECURSIVE xfer_loop_retry_no_media(_, _, _, _)
xfer_loop_retry_no_media(d, read_sector, xfer_size, calls) ==
    LET ret == disk_read_sectors(d, read_sector, xfer_size)
        calls1 == Append(calls, [sector |-> read_sector, count |-> xfer_size, ret |-> ret])
    IN  IF ret = DISK_SUCCESS THEN [ok |-> TRUE, n |-> xfer_size, calls |-> calls1]
        ELSE IF xfer_size - 1 = 0 THEN [ok |-> FALSE, n |-> 0, calls |-> calls1]
        ELSE xfer_loop_retry_no_media(d, read_sector, xfer_size - 1, calls1)

\* The retry loop of cache_block: the transfer shrinks by one sector after
\* every error that is not DISK_NO_MEDIA.  n is the number of sectors the
\* successful request wrote to the start of the cache (0: none).
RECURSIVE xfer_loop(_, _, _, _)
xfer_loop(d, read_sector, xfer_size, calls) ==
    LET ret == disk_read_sectors(d, read_sector, xfer_size)
        calls1 == Append(calls, [sector |-> read_sector, count |-> xfer_size, ret |-> ret])
    IN  IF ret = DISK_NO_MEDIA THEN [ok |-> FALSE, n |-> 0, calls |-> calls1]
        ELSE IF ret = DISK_SUCCESS THEN [ok |-> TRUE, n |-> xfer_size, calls |-> calls1]
        ELSE IF xfer_size - 1 = 0 THEN [ok |-> FALSE, n |-> 0, calls |-> calls1]
        ELSE xfer_loop(d, read_sector, xfer_size - 1, calls1)

\* mutant of cache_hit: a READY cache also serves the block after the cached one
cache_hit_next_block(v, block) ==
    v.cache_status = CACHE_READY /\ (block = v.cached_block \/ block = v.cached_block + 1)

\* the test that opens cache_block: the block asked for is the cached one
cache_hit(v, block) == v.cache_status = CACHE_READY /\ block = v.cached_block

\* cache_block(volume, block): [ret, volume, hit, calls]
cache_block(v, block, d) ==
    IF cache_hit(v, block)
    THEN [ret |-> TRUE, volume |-> v, block |-> block, hit |-> TRUE, calls |-> <<>>]
    ELSE
      LET v1 == [v EXCEPT !.cache_status = CACHE_NOT_READY,
                          !.cache = IF v.cache = <<>>
                                    THEN [i \in 1..v.fastest_xfer_size |-> FRESH]
                                    ELSE @]
          fail == [ret |-> FALSE, volume |-> v1, block |-> block, hit |-> FALSE, calls |-> <<>>]
      IN  IF v1.first_sect % (v1.sector_size \div SECT_UNIT) # 0 THEN fail
          ELSE
            LET first_sect == v1.first_sect \div (v1.sector_size \div SECT_UNIT)
            IN  IF mul_overflow(block, v1.fastest_xfer_size) THEN fail
                ELSE IF add_overflow(first_sect, block * v1.fastest_xfer_size) THEN fail
                ELSE
                  LET read_sector == first_sect + block * v1.fastest_xfer_size
                      r == xfer_loop(d, read_sector, v1.fastest_xfer_size, <<>>)
                  IN  IF ~r.ok
                      THEN [fail EXCEPT !.calls = r.calls]
                      ELSE [ret |-> TRUE,
                            volume |-> [v1 EXCEPT
                                !.cache = [i \in 1..v1.fastest_xfer_size |->
                                             IF i <= r.n THEN read_sector + i - 1 ELSE v1.cache[i]],
                                !.cache_status = CACHE_READY,
                                !.cached_block = block],
                            block |-> block, hit |-> FALSE, calls |-> r.calls]

\* memcpy(buffer + progress, &volume->cache[offset], chunk): the bytes copied,
\* one segment per cache sector touched
memcpy_cache(v, offset, chunk) ==
    LET ss == v.sector_size
        lo == offset \div ss
        hi == (offset + chunk - 1) \div ss
    IN  [k \in 1..(hi - lo + 1) |->
            LET s == lo + k - 1
                from == Max(offset, s * ss)
                to == Min(offset + chunk, (s + 1) * ss)
            IN  <<v.cache[s + 1], from - s * ss, to - from>>]

\* the while loop of volume_read
RECURSIVE read_loop(_, _, _, _, _, _, _)
read_loop(v, d, loc, count, progress, buf, loads) ==
    IF ~(progress < count)
    THEN [ret |-> "true", volume |-> v, buf |-> buf, loads |-> loads]
    ELSE
      LET block_size == (v.fastest_xfer_size * v.sector_size) % U64
          pos == (loc + progress) % U64
          block == pos \div block_size
          cb == cache_block(v, block, d)
          load == [block |-> cb.block, hit |-> cb.hit, ok |-> cb.ret, calls |-> cb.calls]
      IN  IF ~cb.ret
          THEN [ret |-> "false", volume |-> cb.volume, buf |-> buf,
                loads |-> Append(loads, load)]
          ELSE
            LET offset == pos % block_size
                chunk == IF count - progress > block_size - offset
                         THEN block_size - offset
                         ELSE count - progress
            IN  read_loop(cb.volume, d, loc, count, progress + chunk,
                          buf \o memcpy_cache(cb.volume, offset, chunk),
                          Append(loads, load))

\* volume_read(volume, buffer, loc, count): [ret, volume, buf, loads];
\* ret is "true", "false" or "panic"
volume_read(v, d, loc, count) ==
    IF v.pxe
    THEN [ret |-> "panic", volume |-> v, buf |-> <<>>, loads |-> <<>>]
    ELSE IF v.sect_count # SECT_COUNT_UNKNOWN
            /\ (\/ mul_overflow(v.sect_count, v.sector_size)
                \/ loc >= v.sect_count * v.sector_size
                \/ count > v.sect_count * v.sector_size - loc)
    THEN [ret |-> "false", volume |-> v, buf |-> <<>>, loads |-> <<>>]
    ELSE read_loop(v, d, loc, count, 0, <<>>, <<>>)

\* two buffers one after the other; bytes that follow each other in one
\* sector form one segment
join(x, y) ==
    IF x = <<>> THEN y
    ELSE IF y = <<>> THEN x
    ELSE LET l == x[Len(x)]
             f == y[1]
         IN  IF l[1] = f[1] /\ l[2] + l[3] = f[2]
             THEN SubSeq(x, 1, Len(x) - 1) \o <<<<l[1], l[2], l[3] + f[3]>>>> \o Tail(y)
             ELSE x \o y

\* n successive 1-byte calls volume_read(v, loc + from), ..., (loc + from + n - 1),
\* each on the volume as the call before left it: [ok, volume, buf], ok iff
\* every call returned true.  The calls are made in order; the recursion
\* halves the range only to keep the evaluation shallow.
RECURSIVE byte_reads(_, _, _, _, _)
byte_reads(v, d, loc, from, n) ==
    IF n = 0 THEN [ok |-> TRUE, volume |-> v, buf |-> <<>>]
    ELSE IF n = 1
    THEN LET r == volume_read(v, d, loc + from, 1)
         IN  [ok |-> r.ret = "true", volume |-> r.volume, buf |-> r.buf]
    ELSE LET h == n \div 2
             a == byte_reads(v, d, loc, from, h)
             b == byte_reads(a.volume, d, loc, from + h, n - h)
         IN  [ok |-> a.ok /\ b.ok, volume |-> b.volume, buf |-> join(a.buf, b.buf)]

\* the directly stored bytes [loc, loc + count) of the volume, one segment
\* per device sector: what a read of the range has to deliver
volume_bytes(v, loc, count) ==
    IF count = 0 THEN <<>>
    ELSE
      LET ss == v.sector_size
          first == v.first_sect \div (ss \div SECT_UNIT)
          lo == loc \div ss
          hi == (loc + count - 1) \div ss
      IN  [k \in 1..(hi - lo + 1) |->
              LET s == lo + k - 1
                  from == Max(loc, s * ss)
                  to == Min(loc + count, (s + 1) * ss)
              IN  <<first + s, from - s * ss, to - from>>]

-----------------------------------------------------------------------------
(* The volumes and the calls of the model *)

\* <<first_sect, sect_count, sector_size>>: the whole device with unknown and
\* with known size, partitions of 512-byte and of 4096-byte sectors, a
\* partition that does not start on a sector boundary, a sector count whose
\* byte size overflows, and a start at the top of the address space
Geometries ==
    { <<0, SECT_COUNT_UNKNOWN, 512>>,
      <<0, DiskSects, 512>>,
      <<1, 3, 512>>,
      <<8, 16, 4096>>,
      <<3, 8, 4096>>,
      <<0, U64 \div 512, 512>>,
      <<U64 - 8, SECT_COUNT_UNKNOWN, 512>> }

new_volume(g, xfer, pxe) ==
    [first_sect |-> g[1], sect_count |-> g[2], sector_size |-> g[3],
     fastest_xfer_size |-> xfer, pxe |-> pxe,
     index |-> 0, is_optical |-> FALSE, partition |-> 0,
     cache |-> <<>>, cache_status |-> CACHE_NOT_READY, cached_block |-> 0]

Volumes ==
    { new_volume(g, x, FALSE) : g \in Geometries, x \in 1..MaxXfer }
    \cup { new_volume(<<0, SECT_COUNT_UNKNOWN, 512>>, 1, TRUE) }

block_size_of(v) == v.fastest_xfer_size * v.sector_size

\* byte positions and lengths at the edges of sectors and cache blocks
Locs(v) == {0, block_size_of(v) - 1, block_size_of(v), U64Max}
Counts(v) == {0, 2, block_size_of(v) + 2, U64Max}
\* the lengths read in the run that is compared with the reference run
RefCounts(v) == {2, block_size_of(v) + 2}

\* The behaviours of the device during one call.  The retry loop asks for
\* fastest_xfer_size sectors first and for fewer after each failure, and stops
\* at the first answer that is not a failure: the answers to smaller requests
\* than that one are never seen, and are fixed to success here.
DiskStates(v) ==
    { [ans |-> a, sects |-> DiskSects] :
        a \in { d \in [1..v.fastest_xfer_size -> DiskReturns] :
                  \A n \in 1..v.fastest_xfer_size :
                      d[n] # DISK_FAILURE => \A m \in 1..(n - 1) : d[m] = DISK_SUCCESS } }

\* disk before the first call, and once two calls have seen the device behave
\* differently; in between it is [seen |-> "steady", d |-> the behaviour]
NO_CALLS == [seen |-> "none", d |-> <<>>]
VARIED == [seen |-> "varied", d |-> <<>>]

NoCall == [called |-> FALSE, loc |-> 0, count |-> 0, ret |-> "none",
           buf |-> <<>>, loads |-> <<>>]
NoProbe == [state |-> "idle", loc |-> 0, count |-> 0, ret |-> "none", buf |-> <<>>]
NoStep == [ret |-> "none", buf |-> <<>>]

call_record(loc, count, r) ==
    [called |-> TRUE, loc |-> loc, count |-> count, ret |-> r.ret,
     buf |-> r.buf, loads |-> r.loads]

\* The variables of the partition-table part, which the volume reads leave alone
PartIdle == UNCHANGED <<ptable, pget>>

InitVolume ==
    /\ volume \in Volumes
    /\ refvol = volume
    /\ last = NoCall
    /\ reflast = NoCall
    /\ disk = NO_CALLS
    /\ probe = NoProbe
    /\ pstep = NoStep

\* One volume_read call, with the device behaving as d while it lasts
ReadCall(loc, count, d) ==
    LET r == volume_read(volume, d, loc, count)
    IN  /\ volume' = r.volume
        /\ last' = call_record(loc, count, r)

\* The same call in the reference run: same device, cache emptied first
RefCall(loc, count, d) ==
    LET e == volume_read([refvol EXCEPT !.cache_status = CACHE_NOT_READY],
                         d, loc, count)
    IN  /\ refvol' = e.volume
        /\ reflast' = call_record(loc, count, e)

VolumeRead ==
    \E loc \in Locs(volume), count \in Counts(volume), d \in DiskStates(volume) :
        /\ ReadCall(loc, count, d)
        /\ UNCHANGED <<refvol, reflast, disk, probe, pstep>>
        /\ PartIdle
        /\ FsIdle
        /\ IndexIdle
    /\ ContextIdle
    /\ FormatIdle
VolumeReadBoth ==
    \E loc \in Locs(volume), count \in RefCounts(volume), d \in DiskStates(volume) :
        /\ ReadCall(loc, count, d)
        /\ RefCall(loc, count, d)
        /\ disk' = IF disk = NO_CALLS \/ disk = [seen |-> "steady", d |-> d]
                   THEN [seen |-> "steady", d |-> d]
                   ELSE VARIED
        /\ UNCHANGED <<probe, pstep>>
        /\ PartIdle
        /\ FsIdle
        /\ IndexIdle
    /\ ContextIdle
    /\ FormatIdle
\* The comparison of C1: one volume_read of a range within the known size of
\* the volume, then count 1-byte reads of the same range
ProbeRead ==
    /\ probe.state = "idle"
    /\ volume.sect_count # SECT_COUNT_UNKNOWN
    /\ \E loc \in Locs(volume), count \in Counts(volume), d \in DiskStates(volume) :
        LET r == volume_read(volume, d, loc, count)
        IN  /\ volume' = r.volume
            /\ probe' = [state |-> "read", loc |-> loc, count |-> count,
                         ret |-> r.ret, buf |-> r.buf]
            /\ UNCHANGED <<refvol, last, reflast, disk, pstep>>
            /\ PartIdle
            /\ FsIdle
            /\ IndexIdle
    /\ ContextIdle
    /\ FormatIdle
ByteReads ==
    /\ probe.state = "read"
    /\ probe.ret = "true"
    /\ \E d \in DiskStates(volume) :
        LET b == byte_reads(volume, d, probe.loc, 0, probe.count)
        IN  /\ volume' = b.volume
            /\ pstep' = [ret |-> IF b.ok THEN "true" ELSE "false", buf |-> b.buf]
            /\ probe' = [probe EXCEPT !.state = "compared"]
            /\ UNCHANGED <<refvol, last, reflast, disk>>
            /\ PartIdle
            /\ FsIdle
            /\ IndexIdle
    /\ ContextIdle
    /\ FormatIdle
-----------------------------------------------------------------------------
(* Properties of the volume reader *)

first_sector_of(v) == v.first_sect \div (v.sector_size \div SECT_UNIT)
misaligned(v) == v.first_sect % (v.sector_size \div SECT_UNIT) # 0

RECURSIVE buf_len(_)
buf_len(buf) == IF buf = <<>> THEN 0 ELSE buf[1][3] + buf_len(Tail(buf))

\* the range [loc, loc + count) lies within sect_count * sector_size
in_range(v, loc, count) ==
    /\ ~mul_overflow(v.sect_count, v.sector_size)
    /\ loc + count <= v.sect_count * v.sector_size

\* C1 (as claimed): a volume_read of a range within sect_count * sector_size
\* returns the same bytes as count successive 1-byte reads of the range.
C1_SameAsByteReads ==
    (probe.state = "compared" /\ pstep.ret = "true") => pstep.buf = probe.buf

\* C2 (as claimed): each call returns the same flag and the same bytes as the
\* same call of a run whose cache is emptied before every call.
C2_CacheTransparent ==
    last.called => (last.ret = reflast.ret /\ last.buf = reflast.buf)

\* C2 (amended): when the device has answered every request size the same
\* way in all calls so far, each call returns the same flag and the same
\* bytes as the same call of a run whose cache is emptied before every call.
C2_TransparentOnSteadyDevice ==
    (last.called /\ disk # VARIED) =>
        (last.ret = reflast.ret /\ last.buf = reflast.buf)

\* C2 witness: on a steady device a call is served from the cache, where the
\* reference run has to ask the device again, and the cache holds a block
\* that a shortened request loaded only in part
C2_Witness ==
    /\ last.called /\ disk # VARIED /\ last.ret = "true" /\ last.count > 0
    /\ \E k \in 1..Len(last.loads) :
          /\ last.loads[k].hit
          /\ ~reflast.loads[k].hit
          /\ Len(reflast.loads[k].calls) >= 2

\* C3 (as claimed): a READY cache holds the whole aggregate block
\* cached_block of the device, and after a failed block load the cache is
\* NOT_READY.
C3_CacheHoldsBlock ==
    /\ volume.cache_status = CACHE_READY =>
         \A i \in 1..volume.fastest_xfer_size :
            volume.cache[i] = first_sector_of(volume)
                              + volume.cached_block * volume.fastest_xfer_size + i - 1
    /\ (last.called /\ \E k \in 1..Len(last.loads) : ~last.loads[k].ok) =>
         volume.cache_status = CACHE_NOT_READY

\* C4 (as claimed): volume_read returns true iff the whole range was read
\* into the buffer; it returns false when the size is known and the range is
\* not within it, when first_sect is not a multiple of sector_size / 512
\* (and there is a byte to read), and when the device answers NO_MEDIA for a
\* block the call needs.
C4_TrueIffRangeRead ==
    (last.called /\ last.ret # "panic") =>
        /\ last.ret = "true" => last.buf = volume_bytes(volume, last.loc, last.count)
        /\ (last.ret = "false" /\ last.count > 0) => buf_len(last.buf) < last.count
        /\ (volume.sect_count # SECT_COUNT_UNKNOWN
            /\ ~in_range(volume, last.loc, last.count)) => last.ret = "false"
        /\ (misaligned(volume) /\ last.count > 0) => last.ret = "false"
        /\ (\E k \in 1..Len(last.loads) : \E j \in 1..Len(last.loads[k].calls) :
                last.loads[k].calls[j].ret = DISK_NO_MEDIA) => last.ret = "false"

\* the retry protocol on the disk requests of one block load
retry_protocol(v, load) ==
    LET c == load.calls
        n == Len(c)
    IN  /\ n >= 1
        /\ n <= v.fastest_xfer_size
        /\ c[1].count = v.fastest_xfer_size
        /\ c[1].sector = first_sector_of(v) + load.block * v.fastest_xfer_size
        /\ \A j \in 2..n : /\ c[j].count = c[j - 1].count - 1
                           /\ c[j].sector = c[1].sector
                           /\ c[j - 1].ret = DISK_FAILURE
        /\ c[n].count >= 1
        /\ c[n].ret = DISK_SUCCESS => load.ok
        /\ c[n].ret = DISK_NO_MEDIA => ~load.ok
        /\ c[n].ret = DISK_FAILURE => (c[n].count = 1 /\ ~load.ok)

\* an uncached block whose load reached the device
reached_disk(v, load) ==
    ~load.hit /\ ~misaligned(v) /\ ~add_overflow(first_sector_of(v), load.block * v.fastest_xfer_size)

\* C5: loading an uncached block asks the device for fastest_xfer_size
\* sectors first, for exactly one sector fewer after each error, always at
\* the same sector; it ends with success at the first SUCCESS, with failure
\* at the first NO_MEDIA and with failure once the 1-sector request has
\* failed, so after at most fastest_xfer_size requests.
C5_RetryProtocol ==
    \A k \in 1..Len(last.loads) :
        reached_disk(volume, last.loads[k]) => retry_protocol(volume, last.loads[k])

\* C5 witness: a load that shrank the request down to 1 sector and then
\* succeeded, on a volume that transfers several sectors at once
C5_Witness ==
    \E k \in 1..Len(last.loads) :
        LET c == last.loads[k].calls
        IN  /\ volume.fastest_xfer_size >= 2
            /\ Len(c) = volume.fastest_xfer_size
            /\ c[Len(c)].ret = DISK_SUCCESS
            /\ last.loads[k].ok

-----------------------------------------------------------------------------
(* Part 2: the partition parsers (gpt_get_part, is_valid_mbr, mbr_get_part,
   mbr_get_logical_part, part_get).

   ptable is what the parent volume holds where the parsers look: the GPT
   header found at byte 512 and the one found at byte 4096, the GPT entry
   found at the entry offset the parser computes, the sector-0 fields read by
   is_valid_mbr, the four primary MBR entries, and the EBR sectors of the
   extended partition.  The device under the parent serves every request
   within its size. *)

OK == "OK"
NO_PARTITION == "NO_PARTITION"
END_OF_TABLE == "END_OF_TABLE"
INVALID_TABLE == "INVALID_TABLE"
PartReturns == {OK, NO_PARTITION, END_OF_TABLE, INVALID_TABLE}

EFI_PART == "EFI PART"
GPT_REVISION == 65536
GPT_HEADER_SIZE == 92
GPT_ENTRY_SIZE == 128
MBR_ENTRY_SIZE == 16
EXT2_MAGIC == 61267
MAX_LOGICAL_PARTITIONS == 256

\* a volume the code has only zeroed ("struct volume v = {0}")
zero_volume ==
    [first_sect |-> 0, sect_count |-> 0, sector_size |-> 0,
     fastest_xfer_size |-> 0, pxe |-> FALSE,
     index |-> 0, is_optical |-> FALSE, partition |-> 0,
     cache |-> <<>>, cache_status |-> CACHE_NOT_READY, cached_block |-> 0,
     part_guid_valid |-> FALSE, part_guid |-> 0, backing_dev |-> 0]

\* the device under the parent volume: it serves what lies within its size
healthy_disk(img, v) ==
    [ans |-> [n \in 1..v.fastest_xfer_size |-> DISK_SUCCESS], sects |-> img.dev_sects]

\* volume_read as the parsers use it: only the flag decides what they do next
part_read(img, v, loc, count) ==
    volume_read([v EXCEPT !.cache_status = CACHE_NOT_READY],
                healthy_disk(img, v), loc, count).ret = "true"

\* one line of the trace of reads a parser makes
rd(by, loc, count, ok) == [by |-> by, loc |-> loc, count |-> count, ok |-> ok]

\* what a parser hands back: its code, the child volume when it made one, the
\* reads it made, and for the EBR walk the link entries it read
parsed(ret, reads) ==
    [ret |-> ret, made |-> FALSE, child |-> zero_volume, reads |-> reads,
     walked |-> FALSE, k |-> 0, chain |-> <<>>, ext_sect_count |-> 0]

\* the fields every parser copies from the volume it reads
inherit(v, partition, first_sect, sect_count, guid_valid, guid, backing) ==
    [zero_volume EXCEPT
        !.fastest_xfer_size = v.fastest_xfer_size,
        !.index = v.index,
        !.is_optical = v.is_optical,
        !.partition = partition,
        !.sector_size = v.sector_size,
        !.first_sect = first_sect,
        !.sect_count = sect_count,
        !.backing_dev = backing,
        !.part_guid_valid = guid_valid,
        !.part_guid = guid]

\* f applied to the value of x, with x evaluated once
bind(x, f(_)) == CHOOSE y \in { f(a) : a \in {x} } : TRUE

\* mutant of gpt_sect_count: the size in blocks without the + 1
gpt_sect_count_no_plus_one(entry, sect_multiplier) ==
    (entry.ending_lba - entry.starting_lba) * sect_multiplier

gpt_sect_count(entry, sect_multiplier) ==
    (entry.ending_lba - entry.starting_lba + 1) * sect_multiplier

\* gpt_get_part from the entry read on: the projection of the entry
gpt_entry_project(vol, entry, lb_size, partition, reads) ==
    LET sect_multiplier == lb_size \div 512
        partition_size == (entry.ending_lba - entry.starting_lba) % U64
    IN  IF entry.unique_partition_guid = 0 THEN parsed(NO_PARTITION, reads)
        ELSE IF entry.ending_lba < entry.starting_lba THEN parsed(NO_PARTITION, reads)
        ELSE IF mul_overflow(entry.starting_lba, sect_multiplier)
             THEN parsed(NO_PARTITION, reads)
        ELSE IF partition_size = U64Max THEN parsed(NO_PARTITION, reads)
        ELSE IF mul_overflow(partition_size + 1, sect_multiplier)
             THEN parsed(NO_PARTITION, reads)
        ELSE [parsed(OK, reads) EXCEPT
                !.made = TRUE,
                !.child = inherit(vol, partition + 1,
                                  entry.starting_lba * sect_multiplier,
                                  gpt_sect_count(entry, sect_multiplier),
                                  TRUE, entry.unique_partition_guid, vol.partition)]

\* the loop over lb_guesses: the first guess whose header can be read and
\* carries the signature
gpt_probe(img, vol) ==
    bind(part_read(img, vol, 512, GPT_HEADER_SIZE), LAMBDA r512 :
        LET t512 == <<rd("gpt_get_part", 512, GPT_HEADER_SIZE, r512)>>
        IN  IF r512 /\ img.hdr512.signature = EFI_PART
            THEN [lb_size |-> 512, header |-> img.hdr512, reads |-> t512]
            ELSE bind(part_read(img, vol, 4096, GPT_HEADER_SIZE), LAMBDA r4096 :
                LET t4096 == <<rd("gpt_get_part", 4096, GPT_HEADER_SIZE, r4096)>>
                IN  IF r4096 /\ img.hdr4096.signature = EFI_PART
                    THEN [lb_size |-> 4096, header |-> img.hdr4096, reads |-> t512 \o t4096]
                    ELSE [lb_size |-> -1, header |-> img.hdr4096, reads |-> t512 \o t4096]))

\* gpt_get_part from the read of the entry on
gpt_read_entry(img, vol, partition, g, offset) ==
    bind(part_read(img, vol, offset, GPT_ENTRY_SIZE), LAMBDA r :
        LET reads == Append(g.reads, rd("gpt_get_part", offset, GPT_ENTRY_SIZE, r))
        IN  IF ~r THEN parsed(END_OF_TABLE, reads)
            ELSE gpt_entry_project(vol, img.entry, g.lb_size, partition, reads))

\* gpt_get_part once the loop over lb_guesses has ended in g
gpt_parse(img, vol, partition, g) ==
    LET header == g.header
        entry_size == header.size_of_partition_entry
        entry_offset == header.partition_entry_lba * g.lb_size
        partition_offset == (partition * entry_size) % U64
    IN  IF g.lb_size = -1 THEN parsed(INVALID_TABLE, g.reads)
        ELSE IF header.revision # GPT_REVISION THEN parsed(INVALID_TABLE, g.reads)
        ELSE IF partition % U32 >= header.number_of_partition_entries
             THEN parsed(END_OF_TABLE, g.reads)
        ELSE IF entry_size < GPT_ENTRY_SIZE THEN parsed(INVALID_TABLE, g.reads)
        ELSE IF mul_overflow(header.partition_entry_lba, g.lb_size)
             THEN parsed(INVALID_TABLE, g.reads)
        ELSE IF add_overflow(entry_offset, partition_offset)
             THEN parsed(INVALID_TABLE, g.reads)
        ELSE gpt_read_entry(img, vol, partition, g, entry_offset + partition_offset)

gpt_get_part(img, vol, partition) ==
    bind(gpt_probe(img, vol), LAMBDA g : gpt_parse(img, vol, partition, g))

\* is_valid_mbr: the reads it makes in order, each with the content that
\* makes it reject the sector
mbr_checks(m) ==
    << [loc |-> 446, count |-> 1, reject |-> m.status[1] \notin {0, 128}],
       [loc |-> 462, count |-> 1, reject |-> m.status[2] \notin {0, 128}],
       [loc |-> 478, count |-> 1, reject |-> m.status[3] \notin {0, 128}],
       [loc |-> 494, count |-> 1, reject |-> m.status[4] \notin {0, 128}],
       [loc |-> 3, count |-> 4, reject |-> m.at3 = "NTFS"],
       [loc |-> 54, count |-> 3, reject |-> m.at54 = "FAT"],
       [loc |-> 82, count |-> 3, reject |-> m.at82 = "FAT"],
       [loc |-> 3, count |-> 5, reject |-> m.at3 = "FAT32"],
       [loc |-> 1080, count |-> 2, reject |-> m.at1080 = EXT2_MAGIC] >>

RECURSIVE is_valid_mbr_from(_, _, _, _)
is_valid_mbr_from(img, vol, i, reads) ==
    IF i > Len(mbr_checks(img.mbr)) THEN [valid |-> TRUE, reads |-> reads]
    ELSE LET c == mbr_checks(img.mbr)[i]
         IN  bind(part_read(img, vol, c.loc, c.count), LAMBDA r :
                 bind(Append(reads, rd("is_valid_mbr", c.loc, c.count, r)), LAMBDA reads1 :
                     IF ~r \/ c.reject THEN [valid |-> FALSE, reads |-> reads1]
                     ELSE is_valid_mbr_from(img, vol, i + 1, reads1)))

is_valid_mbr(img, vol) == is_valid_mbr_from(img, vol, 1, <<>>)

\* the link entry (at 0x1ce) and the partition entry (at 0x1be) of the EBR at
\* sector s of the extended partition
ebr_link(e, s) ==
    IF e.kind = "linear" THEN [type |-> 5, first_sect |-> (s + e.stride) % U32]
    ELSE IF s < Len(e.link) THEN e.link[s + 1]
    ELSE [type |-> 0, first_sect |-> 0]

ebr_part(e, s) == e.part

\* the chain checks of the walk, without the test that the chain increases
chain_broken_no_order(i, ebr_sector, prev_ebr_sector, sect_count) ==
    ebr_sector = 0 \/ ebr_sector >= sect_count

\* the chain checks of the walk: the new sector is 0, or not above the
\* previous one after the first step, or outside the extended partition
chain_broken(i, ebr_sector, prev_ebr_sector, sect_count) ==
    \/ ebr_sector = 0
    \/ (i > 0 /\ ebr_sector <= prev_ebr_sector)
    \/ ebr_sector >= sect_count

\* one turn of the loop of mbr_get_logical_part
ebr_step(img, extended_part, st, i) ==
    bind(part_read(img, extended_part, st.ebr_sector * 512 + 462, MBR_ENTRY_SIZE), LAMBDA r :
        LET entry_offset == st.ebr_sector * 512 + 462
            reads == Append(st.reads,
                            rd("mbr_get_logical_part", entry_offset, MBR_ENTRY_SIZE, r))
            entry == ebr_link(img.ebr, st.ebr_sector)
            chain == Append(st.chain, entry)
        IN  IF ~r THEN [st EXCEPT !.end = TRUE, !.reads = reads]
            ELSE IF entry.type # 15 /\ entry.type # 5
                 THEN [st EXCEPT !.end = TRUE, !.reads = reads, !.chain = chain]
            ELSE [ebr_sector |-> entry.first_sect,
                  prev_ebr_sector |-> st.ebr_sector,
                  end |-> chain_broken(i, entry.first_sect, st.ebr_sector,
                                       extended_part.sect_count),
                  reads |-> reads, chain |-> chain])

\* turns from, from + 1, ..., from + n - 1 of the loop, stopping at the first
\* that returns
RECURSIVE ebr_walk(_, _, _, _, _)
ebr_walk(img, extended_part, st, from, n) ==
    IF n = 0 \/ st.end THEN st
    ELSE IF n = 1 THEN ebr_step(img, extended_part, st, from)
    ELSE bind(ebr_walk(img, extended_part, st, from, n \div 2), LAMBDA m :
             ebr_walk(img, extended_part, m, from + n \div 2, n - n \div 2))

\* mbr_get_logical_part after the loop, which ended in st
logical_entry(img, extended_part, partition, st) ==
    bind(part_read(img, extended_part, st.ebr_sector * 512 + 446, MBR_ENTRY_SIZE), LAMBDA r :
        LET entry_offset == st.ebr_sector * 512 + 446
            reads == Append(st.reads,
                            rd("mbr_get_logical_part", entry_offset, MBR_ENTRY_SIZE, r))
            entry == ebr_part(img.ebr, st.ebr_sector)
            first_sect_64 == extended_part.first_sect + st.ebr_sector + entry.first_sect
            walk(p) == [p EXCEPT !.walked = TRUE, !.k = partition, !.chain = st.chain,
                                 !.ext_sect_count = extended_part.sect_count]
        IN  IF ~r THEN walk(parsed(END_OF_TABLE, reads))
            ELSE IF entry.type = 0 THEN walk(parsed(NO_PARTITION, reads))
            ELSE IF entry.sect_count = 0 THEN walk(parsed(NO_PARTITION, reads))
            ELSE IF add_overflow(extended_part.first_sect, st.ebr_sector)
                 THEN walk(parsed(NO_PARTITION, reads))
            ELSE IF add_overflow(extended_part.first_sect + st.ebr_sector, entry.first_sect)
                 THEN walk(parsed(NO_PARTITION, reads))
            ELSE IF add_overflow(first_sect_64, entry.sect_count)
                 THEN walk(parsed(NO_PARTITION, reads))
            ELSE walk([parsed(OK, reads) EXCEPT
                         !.made = TRUE,
                         !.child = inherit(extended_part, partition + 4 + 1, first_sect_64,
                                           entry.sect_count, FALSE, 0,
                                           extended_part.backing_dev)]))

\* what the walk returns when its loop returned: END_OF_TABLE
walk_ended(extended_part, partition, st) ==
    [parsed(END_OF_TABLE, st.reads) EXCEPT
        !.walked = TRUE, !.k = partition, !.chain = st.chain,
        !.ext_sect_count = extended_part.sect_count]

mbr_get_logical_part(img, extended_part, partition) ==
    IF partition >= MAX_LOGICAL_PARTITIONS
    THEN [parsed(END_OF_TABLE, <<>>) EXCEPT !.walked = TRUE, !.k = partition,
              !.ext_sect_count = extended_part.sect_count]
    ELSE bind(ebr_walk(img, extended_part,
                       [ebr_sector |-> 0, prev_ebr_sector |-> 0, end |-> FALSE,
                        reads |-> <<>>, chain |-> <<>>],
                       0, partition),
              LAMBDA st : IF st.end THEN walk_ended(extended_part, partition, st)
                          ELSE logical_entry(img, extended_part, partition, st))

\* the loop of mbr_get_part over the primary entries: the first entry from i
\* on that can be read, has an extended type and a size
RECURSIVE find_extended(_, _, _, _)
find_extended(img, vol, i, reads) ==
    IF i >= 4 THEN [found |-> FALSE, i |-> i, reads |-> reads]
    ELSE bind(part_read(img, vol, 446 + MBR_ENTRY_SIZE * i, MBR_ENTRY_SIZE), LAMBDA r :
        bind(Append(reads, rd("mbr_get_part", 446 + MBR_ENTRY_SIZE * i, MBR_ENTRY_SIZE, r)),
             LAMBDA reads1 :
                LET entry == img.part[i + 1]
                IN  IF ~r THEN find_extended(img, vol, i + 1, reads1)
                    ELSE IF entry.type # 15 /\ entry.type # 5
                         THEN find_extended(img, vol, i + 1, reads1)
                    ELSE IF entry.sect_count = 0 THEN find_extended(img, vol, i + 1, reads1)
                    ELSE [found |-> TRUE, i |-> i, reads |-> reads1]))

\* mbr_get_part for a logical partition: the walk in the extended partition x
mbr_logical(img, vol, partition, x) ==
    LET extended_part == inherit(vol, x.i + 1, img.part[x.i + 1].first_sect,
                                 img.part[x.i + 1].sect_count, FALSE, 0, vol.partition)
    IN  IF x.found
        THEN bind(mbr_get_logical_part(img, extended_part, partition - 4), LAMBDA l :
                 [l EXCEPT !.reads = x.reads \o l.reads])
        ELSE parsed(END_OF_TABLE, x.reads)

\* mbr_get_part for a primary partition
mbr_primary(img, vol, partition, v) ==
    bind(part_read(img, vol, 446 + MBR_ENTRY_SIZE * partition, MBR_ENTRY_SIZE), LAMBDA r :
        LET entry_offset == 446 + MBR_ENTRY_SIZE * partition
            reads == Append(v.reads, rd("mbr_get_part", entry_offset, MBR_ENTRY_SIZE, r))
            entry == img.part[partition + 1]
        IN  IF ~r THEN parsed(END_OF_TABLE, reads)
            ELSE IF entry.type = 0 THEN parsed(NO_PARTITION, reads)
            ELSE IF entry.sect_count = 0 THEN parsed(NO_PARTITION, reads)
            ELSE [parsed(OK, reads) EXCEPT
                    !.made = TRUE,
                    !.child = inherit(vol, partition + 1, entry.first_sect,
                                      entry.sect_count, FALSE, 0, vol.partition)])

mbr_get_part(img, vol, partition) ==
    bind(is_valid_mbr(img, vol), LAMBDA v :
        IF ~v.valid THEN parsed(INVALID_TABLE, v.reads)
        ELSE IF partition > 3
             THEN bind(find_extended(img, vol, 0, v.reads), LAMBDA x :
                      mbr_logical(img, vol, partition, x))
        ELSE mbr_primary(img, vol, partition, v))

\* what part_get hands back, with the code of each parser it consulted
got(partition, p, gpt, mbr) ==
    [called |-> TRUE, partition |-> partition, ret |-> p.ret, made |-> p.made,
     child |-> p.child, reads |-> p.reads, walked |-> p.walked, k |-> p.k,
     chain |-> p.chain, ext_sect_count |-> p.ext_sect_count,
     gpt |-> gpt, mbr |-> mbr]

NOT_CONSULTED == "not consulted"

\* mutant of fall_back: the MBR parser is consulted whenever GPT found no partition
fall_back_unless_ok(gpt_ret) == gpt_ret # OK

\* the test between the two parsers of part_get
fall_back(gpt_ret) == gpt_ret = INVALID_TABLE

\* part_get once gpt_get_part has returned g
part_get_mbr(img, vol, partition, g) ==
    IF ~fall_back(g.ret) THEN got(partition, g, g.ret, NOT_CONSULTED)
    ELSE bind(mbr_get_part(img, vol, partition), LAMBDA m :
            bind([m EXCEPT !.reads = g.reads \o m.reads], LAMBDA p :
                IF m.ret # INVALID_TABLE THEN got(partition, p, g.ret, m.ret)
                ELSE got(partition, parsed(INVALID_TABLE, p.reads), g.ret, m.ret)))

part_get(img, vol, partition) ==
    IF partition < 0
    THEN bind(parsed(NO_PARTITION, <<>>), LAMBDA p :
            got(partition, p, NOT_CONSULTED, NOT_CONSULTED))
    ELSE bind(gpt_get_part(img, vol, partition), LAMBDA g :
            part_get_mbr(img, vol, partition, g))

NoGet ==
    bind(parsed("none", <<>>), LAMBDA p :
        [got(0, p, NOT_CONSULTED, NOT_CONSULTED) EXCEPT !.called = FALSE])

-----------------------------------------------------------------------------
(* The disks the parsers are run on *)

gpt_header(sig, rev, n, size, lba) ==
    [signature |-> sig, revision |-> rev, number_of_partition_entries |-> n,
     size_of_partition_entry |-> size, partition_entry_lba |-> lba]

gpt_entry(guid, first, lst) ==
    [unique_partition_guid |-> guid, starting_lba |-> first, ending_lba |-> lst]

mbr_entry(type, first, count) ==
    [type |-> type, first_sect |-> first, sect_count |-> count]

mbr_hints(status, at3, at54, at82, at1080) ==
    [status |-> status, at3 |-> at3, at54 |-> at54, at82 |-> at82, at1080 |-> at1080]

no_header == gpt_header("", 0, 0, 0, 0)
no_entry == gpt_entry(0, 0, 0)
no_mbr_entry == mbr_entry(0, 0, 0)
no_ebr == [kind |-> "table", link |-> <<>>, stride |-> 0, part |-> no_mbr_entry]
hints_ok == mbr_hints(<<0, 0, 0, 0>>, "", "", "", 0)
hints_ntfs == mbr_hints(<<128, 0, 0, 0>>, "NTFS", "", "", 0)
empty_table == <<no_mbr_entry, no_mbr_entry, no_mbr_entry, no_mbr_entry>>
\* the protective MBR of a GPT disk: one entry of type 0xEE over the disk
protective_table == <<mbr_entry(238, 1, U32Max), no_mbr_entry, no_mbr_entry, no_mbr_entry>>
\* two data partitions (the second past the end of the small disks), an
\* extended entry without size, and the extended entry ext
table_with(ext) == <<mbr_entry(131, 2, 4), mbr_entry(131, 6, 100), mbr_entry(5, 1, 0), ext>>

image(parent, dev_sects, hdr512, hdr4096, entry, mbr, part, ebr) ==
    [parent |-> parent, dev_sects |-> dev_sects, hdr512 |-> hdr512,
     hdr4096 |-> hdr4096, entry |-> entry, mbr |-> mbr, part |-> part, ebr |-> ebr]

\* whole-disk parent volumes with the size of their device in sectors:
\* 512-byte sectors with 8, 2 and 300 sectors, 4096-byte sectors, and a disk
\* whose sector count is unknown
disk_small == <<new_volume(<<0, 8, 512>>, 2, FALSE), 8>>
disk_tiny == <<new_volume(<<0, 2, 512>>, 1, FALSE), 2>>
disk_long == <<new_volume(<<0, 300, 512>>, 2, FALSE), 300>>
disk_4k == <<new_volume(<<0, 40, 4096>>, 1, FALSE), 40>>
disk_unknown == <<new_volume(<<0, SECT_COUNT_UNKNOWN, 512>>, 2, FALSE), 8>>

\* GPT headers: a usual one, then one deviation each: revision, no entries,
\* four entries, entries too small, wider entries, an entry array beyond the
\* disk, and entry offsets that overflow in the multiplication and in the
\* addition
GptHeaders ==
    { gpt_header(EFI_PART, GPT_REVISION, 8, GPT_ENTRY_SIZE, 2),
      gpt_header(EFI_PART, 0, 8, GPT_ENTRY_SIZE, 2),
      gpt_header(EFI_PART, GPT_REVISION, 0, GPT_ENTRY_SIZE, 2),
      gpt_header(EFI_PART, GPT_REVISION, 4, GPT_ENTRY_SIZE, 2),
      gpt_header(EFI_PART, GPT_REVISION, 8, GPT_ENTRY_SIZE - 1, 2),
      gpt_header(EFI_PART, GPT_REVISION, 8, 2 * GPT_ENTRY_SIZE, 2),
      gpt_header(EFI_PART, GPT_REVISION, 8, GPT_ENTRY_SIZE, 1000),
      gpt_header(EFI_PART, GPT_REVISION, 8, GPT_ENTRY_SIZE, U64 \div 512),
      gpt_header(EFI_PART, GPT_REVISION, 8, GPT_ENTRY_SIZE, U64 \div 512 - 1) }

\* the header at byte 512 and the header at byte 4096
GptHeaderPairs ==
    { <<h, no_header>> : h \in GptHeaders } \cup { <<no_header, h>> : h \in GptHeaders }
    \cup { <<no_header, no_header>> }

GptEntries ==
    { gpt_entry(g, r[1], r[2]) :
        g \in {0, 7},
        r \in { <<2, 5>>, <<5, 2>>, <<2, 100>>, <<0, U64Max>>,
                <<U64 \div 8, U64 \div 8>>, <<0, U64 \div 8 - 1>> } }

GptImages ==
    { image(p[1], p[2], hh[1], hh[2], e, m[1], m[2], no_ebr) :
        p \in {disk_small, disk_4k},
        hh \in GptHeaderPairs,
        e \in GptEntries,
        m \in { <<hints_ok, protective_table>>, <<hints_ntfs, empty_table>>,
                <<hints_ok, table_with(mbr_entry(5, 1, 4))>> } }

MbrHints ==
    { hints_ok, hints_ntfs,
      mbr_hints(<<128, 0, 0, 0>>, "", "", "", 0),
      mbr_hints(<<0, 0, 1, 0>>, "", "", "", 0),
      mbr_hints(<<0, 0, 0, 0>>, "", "FAT", "", 0),
      mbr_hints(<<0, 0, 0, 0>>, "", "", "FAT", 0),
      mbr_hints(<<0, 0, 0, 0>>, "FAT32", "", "", 0),
      mbr_hints(<<0, 0, 0, 0>>, "", "", "", EXT2_MAGIC) }

MbrImages ==
    { image(p[1], p[2], no_header, no_header, no_entry, h, t, no_ebr) :
        p \in {disk_small, disk_tiny, disk_long, disk_4k, disk_unknown},
        h \in MbrHints,
        t \in {empty_table, protective_table, table_with(mbr_entry(5, 1, 4))} }

\* EBR sectors 0 .. EbrSects - 1 of the extended partition hold any link
\* among the sectors 0 .. EbrSects, or a link of another type
EbrSects == 2

EbrLinks ==
    { [type |-> 5, first_sect |-> t] : t \in 0..EbrSects }
    \cup { [type |-> 15, first_sect |-> 1], [type |-> 131, first_sect |-> 1] }

\* the chains of the extended partition: every table of links, and the
\* chains where the EBR at sector s links to sector s + stride
EbrLayouts ==
    { [kind |-> "table", link |-> l, stride |-> 0, part |-> e] :
        l \in [1..EbrSects -> EbrLinks],
        e \in {mbr_entry(131, 1, 2), no_mbr_entry, mbr_entry(131, 7, 200)} }
    \cup { [kind |-> "linear", link |-> <<>>, stride |-> n, part |-> e] :
        n \in {1, 2},
        e \in {mbr_entry(131, 1, 2), mbr_entry(131, 1, 0)} }

EbrImages ==
    { image(p[1][1], p[1][2], no_header, no_header, no_entry, hints_ok,
            table_with(p[2]), ebr) :
        p \in { <<disk_small, mbr_entry(5, 1, 4)>>,
                <<disk_small, mbr_entry(15, 1, 299)>>,
                <<disk_4k, mbr_entry(5, 8, 16)>>,
                <<disk_4k, mbr_entry(5, 1, 4)>>,
                <<disk_long, mbr_entry(15, 1, 299)>> },
        ebr \in EbrLayouts }

Images == GptImages \cup MbrImages \cup EbrImages

\* a blank disk
NoTable ==
    image(disk_small[1], disk_small[2], no_header, no_header, no_entry,
          hints_ok, empty_table, no_ebr)

\* the partition indexes asked for: negative, the primary ones, the first
\* logical ones, and those around the limit of the EBR walk
PartIndexes ==
    (-1..7) \cup { 4 + MAX_LOGICAL_PARTITIONS + n : n \in -1..1 }

VolumeIdle == UNCHANGED <<volume, refvol, last, reflast, disk, probe, pstep>>

\* the first part_get on the parent volume, for any index
PartGet ==
    /\ ~pget.called
    /\ \E partition \in PartIndexes :
        pget' = part_get(ptable, ptable.parent, partition)
    /\ UNCHANGED ptable
    /\ VolumeIdle
    /\ FsIdle
    /\ IndexIdle
    /\ ContextIdle
    /\ FormatIdle
\* the caller's enumeration of the partitions: the next index, until part_get
\* reports the end of the table or no table
PartGetNext ==
    /\ pget.called
    /\ pget.ret \notin {END_OF_TABLE, INVALID_TABLE}
    /\ pget' = part_get(ptable, ptable.parent, pget.partition + 1)
    /\ UNCHANGED ptable
    /\ VolumeIdle
    /\ FsIdle
    /\ IndexIdle
    /\ ContextIdle
    /\ FormatIdle
-----------------------------------------------------------------------------
(* Properties of the partition parsers *)

\* the sectors of a volume of known size, in 512-byte units
volume_end(v) == v.first_sect + v.sect_count * (v.sector_size \div SECT_UNIT)

\* the GPT header of the disk: the one at byte 512 if it carries the
\* signature, else the one at byte 4096 (both lie within the parent volume)
headers_in_range ==
    /\ ptable.parent.sect_count # SECT_COUNT_UNKNOWN
    /\ in_range(ptable.parent, 4096, GPT_HEADER_SIZE)
disk_lb_size ==
    IF ptable.hdr512.signature = EFI_PART THEN 512
    ELSE IF ptable.hdr4096.signature = EFI_PART THEN 4096
    ELSE -1
disk_header == IF disk_lb_size = 512 THEN ptable.hdr512 ELSE ptable.hdr4096
valid_gpt_header ==
    headers_in_range /\ disk_lb_size # -1 /\ disk_header.revision = GPT_REVISION

\* the entry offset partition_entry_lba * lb_size + index * size_of_partition_entry
\* does not fit 64 bits
entry_offset_overflows(index) ==
    \/ mul_overflow(disk_header.partition_entry_lba, disk_lb_size)
    \/ add_overflow(disk_header.partition_entry_lba * disk_lb_size,
                    index * disk_header.size_of_partition_entry)

\* C6 (as claimed): part_get returns one of the four codes, and a child it
\* produces lies within the sector range of a parent of known size.
C6_ChildWithinParent ==
    pget.called =>
        /\ pget.ret \in PartReturns
        /\ pget.made <=> pget.ret = OK
        /\ (pget.made /\ ptable.parent.sect_count # SECT_COUNT_UNKNOWN) =>
              /\ pget.child.first_sect >= ptable.parent.first_sect
              /\ pget.child.first_sect + pget.child.sect_count <= volume_end(ptable.parent)

\* C7: part_get consults the GPT parser before the MBR parser, and the MBR
\* parser only after the GPT parser reported INVALID_TABLE; the result is one
\* of the four codes, it is INVALID_TABLE exactly when both parsers report
\* INVALID_TABLE, and any other GPT result is returned as it is, with no read
\* made by the MBR parser.
C7_GptFirstThenMbr ==
    pget.called =>
        /\ pget.ret \in PartReturns
        /\ pget.partition >= 0 => pget.gpt # NOT_CONSULTED
        /\ pget.mbr # NOT_CONSULTED => pget.gpt = INVALID_TABLE
        /\ \A i, j \in 1..Len(pget.reads) :
              (i < j /\ pget.reads[j].by = "gpt_get_part") => pget.reads[i].by = "gpt_get_part"
        /\ pget.ret = INVALID_TABLE <=>
              (pget.gpt = INVALID_TABLE /\ pget.mbr = INVALID_TABLE)
        /\ pget.gpt \notin {INVALID_TABLE, NOT_CONSULTED} =>
              /\ pget.ret = pget.gpt
              /\ \A i \in 1..Len(pget.reads) : pget.reads[i].by = "gpt_get_part"

\* C7 witness: the GPT parser reported INVALID_TABLE and the MBR parser, read
\* after it, produced the partition
C7_Witness ==
    /\ pget.called
    /\ pget.gpt = INVALID_TABLE
    /\ pget.mbr = OK
    /\ pget.made
    /\ \E i \in 1..Len(pget.reads) : pget.reads[i].by = "is_valid_mbr"

\* C8 (as claimed): on a disk with a valid GPT header whose entry offset
\* overflows for the index asked for (an index the header has, with entries
\* of full size), part_get returns INVALID_TABLE and produces no child,
\* whatever the MBR holds.
C8_OverflowIsInvalidTable ==
    ( /\ pget.called
      /\ pget.partition >= 0
      /\ valid_gpt_header
      /\ pget.partition < disk_header.number_of_partition_entries
      /\ disk_header.size_of_partition_entry >= GPT_ENTRY_SIZE
      /\ entry_offset_overflows(pget.partition) )
    => (pget.ret = INVALID_TABLE /\ ~pget.made)

\* the result the claim gives for the entry: no partition, or the child
projection_of_entry(index) ==
    LET e == ptable.entry
        m == disk_lb_size \div 512
    IN  IF \/ e.unique_partition_guid = 0
           \/ e.ending_lba < e.starting_lba
           \/ mul_overflow(e.starting_lba, m)
           \/ e.ending_lba - e.starting_lba + 1 > U64Max \div m
        THEN pget.gpt = NO_PARTITION
        ELSE /\ pget.gpt = OK
             /\ pget.made
             /\ pget.child.partition = index + 1
             /\ pget.child.first_sect = e.starting_lba * m
             /\ pget.child.sect_count = (e.ending_lba - e.starting_lba + 1) * m
             /\ pget.child.part_guid_valid
             /\ pget.child.part_guid = e.unique_partition_guid
             /\ pget.child.sector_size = ptable.parent.sector_size
             /\ pget.child.fastest_xfer_size = ptable.parent.fastest_xfer_size
             /\ pget.child.index = ptable.parent.index
             /\ pget.child.is_optical = ptable.parent.is_optical

\* C9 (as claimed): for a valid GPT header and an index below
\* number_of_partition_entries the GPT parser returns NO_PARTITION or the
\* projection of the entry.
C9_GptEntryProjection ==
    ( /\ pget.called
      /\ pget.partition >= 0
      /\ valid_gpt_header
      /\ pget.partition < disk_header.number_of_partition_entries )
    => projection_of_entry(pget.partition)

\* the entry of the index lies within the parent volume
entry_in_range(index) ==
    in_range(ptable.parent,
             disk_header.partition_entry_lba * disk_lb_size
                 + index * disk_header.size_of_partition_entry,
             GPT_ENTRY_SIZE)

\* C9 (amended): for a valid GPT header and an index below
\* number_of_partition_entries, the GPT parser returns INVALID_TABLE when
\* size_of_partition_entry is below 128 or the entry offset overflows,
\* END_OF_TABLE when the entry lies outside the volume, and otherwise
\* NO_PARTITION or the projection of the entry as claimed.
C9_ProjectionOfReadableEntry ==
    ( /\ pget.called
      /\ pget.partition >= 0
      /\ valid_gpt_header
      /\ pget.partition < disk_header.number_of_partition_entries )
    => IF \/ disk_header.size_of_partition_entry < GPT_ENTRY_SIZE
          \/ entry_offset_overflows(pget.partition)
       THEN pget.gpt = INVALID_TABLE
       ELSE IF ~entry_in_range(pget.partition)
       THEN pget.gpt = END_OF_TABLE
       ELSE projection_of_entry(pget.partition)

\* C9 witness: an entry of a GPT with 4096-byte blocks projected to a child
\* of 8 sectors per block
C9_Witness ==
    /\ pget.called
    /\ valid_gpt_header
    /\ disk_lb_size = 4096
    /\ pget.gpt = OK
    /\ pget.made
    /\ pget.child.first_sect = 16
    /\ pget.child.sect_count = 32

\* the links the walk read are those of the disk, from sector 0 on
chain_of_disk ==
    \A i \in 1..Len(pget.chain) :
        pget.chain[i] = ebr_link(ptable.ebr,
                                 IF i = 1 THEN 0 ELSE pget.chain[i - 1].first_sect)

\* C10: the walk to logical partition k reads at most k links and fewer than
\* 256; unless it returns END_OF_TABLE, k is below 256 and every link read has
\* type 0x0F or 0x05 and leads to a sector that is not 0, lies below the
\* sect_count of the extended partition and, after the first step, above the
\* previous one; from index 256 on the walk returns END_OF_TABLE.
C10_EbrWalkBounded ==
    (pget.called /\ pget.walked) =>
        /\ chain_of_disk
        /\ Len(pget.chain) <= pget.k
        /\ Len(pget.chain) < MAX_LOGICAL_PARTITIONS
        /\ pget.k >= MAX_LOGICAL_PARTITIONS => pget.ret = END_OF_TABLE
        /\ pget.ret # END_OF_TABLE =>
              /\ Len(pget.chain) = pget.k
              /\ \A i \in 1..Len(pget.chain) :
                    /\ pget.chain[i].type \in {15, 5}
                    /\ pget.chain[i].first_sect # 0
                    /\ pget.chain[i].first_sect < pget.ext_sect_count
                    /\ i > 1 => pget.chain[i].first_sect > pget.chain[i - 1].first_sect

\* C10 witness: the longest walk, 255 links to the last logical partition
C10_Witness ==
    /\ pget.called
    /\ pget.walked
    /\ pget.k = MAX_LOGICAL_PARTITIONS - 1
    /\ Len(pget.chain) = MAX_LOGICAL_PARTITIONS - 1
    /\ pget.ret = OK

-----------------------------------------------------------------------------
(* Part 3: the FAT driver (read_cluster_from_map, cache_cluster_chain,
   read_cluster_chain, fat32_open_in, fat32_open, fat32_read)

   A FAT image fs is the context that fat32_init_context made of its BPB
   (type, bytes_per_sector, sectors_per_cluster, fat_start_lba,
   sectors_per_fat, root_start, root_entries, data_start_lba,
   root_directory_cluster, part) with the contents of the volume: fs.fat are
   the entries of the first FAT from cluster 0 on (the entries after them are
   0), fs.rsvd the upper four bits of every FAT32 entry, fs.root the entries
   of the fixed root directory of FAT12/16 and fs.dirs the entries of the
   directories held in clusters.  Names are sequences of characters.  The
   directories of the model hold short-name entries only.  The bytes of the
   data region are identified by where they are stored, as in Part 1. *)

FAT32_MAX_CHAIN_LENGTH == 16777216
FAT32_ATTRIBUTE_VOLLABEL == 8

\* volume_read as the driver uses it, on a device that serves what lies
\* within its size: the flag and the bytes
fat_volume_read(fs, loc, count) ==
    volume_read([fs.part EXCEPT !.cache_status = CACHE_NOT_READY],
                healthy_disk(fs, fs.part), loc, count)

\* the entry of the first FAT for a cluster, as the image holds it
fat_entry(fs, cluster) ==
    IF cluster < Len(fs.fat) THEN fs.fat[cluster + 1] ELSE 0

\* byte j of the first FAT: 12-bit entries packed two to three bytes, 16-bit
\* and 32-bit entries little-endian
fat_byte(fs, j) ==
    IF fs.type = 12
    THEN LET e0 == fat_entry(fs, 2 * (j \div 3))
             e1 == fat_entry(fs, 2 * (j \div 3) + 1)
         IN  CASE j % 3 = 0 -> e0 % 256
               [] j % 3 = 1 -> (e0 \div 256) + ((e1 % 16) * 16)
               [] OTHER -> e1 \div 16
    ELSE IF fs.type = 16
    THEN LET e == fat_entry(fs, j \div 2)
         IN  IF j % 2 = 0 THEN e % 256 ELSE e \div 256
    ELSE LET e == fat_entry(fs, j \div 4)
         IN  CASE j % 4 = 0 -> e % 256
               [] j % 4 = 1 -> (e \div 256) % 256
               [] j % 4 = 2 -> (e \div 65536) % 256
               [] OTHER -> ((e \div 16777216) % 16) + 16 * fs.rsvd

\* the device addresses of the bytes of a buffer, in order
RECURSIVE buf_addrs(_, _)
buf_addrs(v, buf) ==
    IF buf = <<>> THEN <<>>
    ELSE [i \in 1..buf[1][3] |-> buf[1][1] * v.sector_size + buf[1][2] + i - 1]
         \o buf_addrs(v, Tail(buf))

\* the byte the image holds at a device address of the FAT region
fat_region_byte(fs, addr) ==
    LET start == first_sector_of(fs.part) * fs.part.sector_size
                 + fs.fat_start_lba * fs.bytes_per_sector
    IN  fat_byte(fs, addr - start)

\* the entry that read_cluster_from_map makes of the bytes it read at the
\* device addresses a: tmp is the 16-bit word, little-endian
map_entry(fs, cluster, a) ==
    LET b(i) == fat_region_byte(fs, a[i])
        tmp == b(1) + 256 * b(2)
    IN  CASE fs.type = 12 -> IF cluster % 2 = 0 THEN tmp % 4096 ELSE tmp \div 16
          [] fs.type = 16 -> tmp
          [] OTHER -> tmp + 65536 * b(3) + 16777216 * (b(4) % 16)

\* read_cluster_from_map(context, cluster, &out): [ret, out]
read_cluster_from_map(fs, cluster) ==
    LET fat_base == fs.fat_start_lba * fs.bytes_per_sector
        fat_size == fs.sectors_per_fat * fs.bytes_per_sector
        width == IF fs.type = 32 THEN 4 ELSE 2
        offset == CASE fs.type = 12 -> cluster + cluster \div 2
                    [] fs.type = 16 -> cluster * 2
                    [] OTHER -> cluster * 4
    IN  IF offset + width > fat_size THEN [ret |-> -1, out |-> 0]
        ELSE bind(fat_volume_read(fs, fat_base + offset, width),
                  LAMBDA r :
                    IF r.ret # "true" THEN [ret |-> -1, out |-> 0]
                    ELSE [ret |-> 0,
                          out |-> bind(buf_addrs(fs.part, r.buf),
                                       LAMBDA a : map_entry(fs, cluster, a))])

cluster_limit(fs) ==
    CASE fs.type = 12 -> 4079 [] fs.type = 16 -> 65519 [] OTHER -> 268435439

max_clusters(fs) == Min(cluster_limit(fs) - 1, FAT32_MAX_CHAIN_LENGTH)

\* mutant of link: an entry below 2 does not end the chain
link_through_free(fs, from) ==
    bind(read_cluster_from_map(fs, from),
         LAMBDA r :
           IF r.ret # 0 THEN [from |-> from, to |-> from, st |-> "fail", n |-> 1]
           ELSE IF r.out > cluster_limit(fs)
           THEN [from |-> from, to |-> r.out, st |-> "end", n |-> 1]
           ELSE [from |-> from, to |-> r.out, st |-> "walk", n |-> 1])

\* One iteration of the first loop of cache_cluster_chain from cluster from:
\* the FAT read failed ("fail"), the entry read ends the chain ("end"), or it
\* is the next cluster to.  n counts the iterations made.
link(fs, from) ==
    bind(read_cluster_from_map(fs, from),
         LAMBDA r :
           IF r.ret # 0 THEN [from |-> from, to |-> from, st |-> "fail", n |-> 1]
           ELSE IF r.out < 2 \/ r.out > cluster_limit(fs)
           THEN [from |-> from, to |-> r.out, st |-> "end", n |-> 1]
           ELSE [from |-> from, to |-> r.out, st |-> "walk", n |-> 1])

\* the clusters the loop can come to from the clusters in S
RECURSIVE clusters_from(_, _)
clusters_from(fs, S) ==
    bind(S \cup {l.to : l \in {m \in {link(fs, c) : c \in S} : m.st = "walk"}},
         LAMBDA T : IF T = S THEN S ELSE clusters_from(fs, T))

\* Runs of the loop.  A table holds, for every cluster the loop can come to,
\* the run of up to k iterations that starts there; after(A, B) is the table
\* of the runs of A followed by the runs of B.
run_from(A, cluster) == CHOOSE a \in A : a.from = cluster

after(A, B) ==
    { IF a.st # "walk" THEN a
      ELSE LET b == run_from(B, a.to)
           IN  [from |-> a.from, to |-> b.to, st |-> b.st, n |-> a.n + b.n]
      : a \in A }

\* the table of the runs of up to k iterations (k >= 1).  The iterations are
\* made in order; the table of k is built from the one of k \div 2 to keep
\* the evaluation short for the limits of FAT16 and FAT32.
RECURSIVE runs(_, _)
runs(L, k) ==
    IF k = 1 THEN L
    ELSE bind(runs(L, k \div 2),
              LAMBDA H : bind(after(H, H),
                              LAMBDA D : IF k % 2 = 0 THEN D ELSE after(D, L)))

\* the second loop of cache_cluster_chain: [ok, chain, reads]
RECURSIVE fill_chain(_, _, _, _)
fill_chain(fs, cluster, i, chain_length) ==
    IF ~(i < chain_length) THEN [ok |-> TRUE, chain |-> <<>>, reads |-> 0]
    ELSE bind(read_cluster_from_map(fs, cluster),
              LAMBDA r :
                IF r.ret # 0 THEN [ok |-> FALSE, chain |-> <<>>, reads |-> 1]
                ELSE bind(fill_chain(fs, r.out, i + 1, chain_length),
                          LAMBDA rest :
                            [ok |-> rest.ok, chain |-> <<cluster>> \o rest.chain,
                             reads |-> rest.reads + 1]))

no_chain(first, second) ==
    [null |-> TRUE, chain |-> <<>>, set_len |-> FALSE, chain_length |-> 0,
     first_pass |-> first, second_pass |-> second]

\* cache_cluster_chain(context, initial_cluster, &chain_length):
\* null: it returned NULL; set_len: it stored the length; first_pass and
\* second_pass: the FAT reads of the two loops
cache_cluster_chain(fs, initial_cluster) ==
    IF initial_cluster < 2 \/ initial_cluster > cluster_limit(fs)
    THEN no_chain(0, 0)
    ELSE bind(run_from(runs({link(fs, c) : c \in clusters_from(fs, {initial_cluster})},
                            max_clusters(fs)),
                       initial_cluster),
              LAMBDA w :
                IF w.st = "fail" THEN no_chain(w.n, 0)
                ELSE IF w.st = "walk" THEN no_chain(w.n, 0)
                ELSE bind(fill_chain(fs, initial_cluster, 0, w.n),
                          LAMBDA f :
                            IF ~f.ok THEN no_chain(w.n, f.reads)
                            ELSE [null |-> FALSE, chain |-> f.chain, set_len |-> TRUE,
                                  chain_length |-> w.n,
                                  first_pass |-> w.n, second_pass |-> f.reads]))

\* mutant of cluster_base: clusters counted from 0 instead of from 2
cluster_base_from_zero(fs, cluster) ==
    (fs.data_start_lba + cluster * fs.sectors_per_cluster) * fs.bytes_per_sector

\* the volume offset of the first byte of a cluster of the data region
cluster_base(fs, cluster) ==
    (fs.data_start_lba + (cluster - 2) * fs.sectors_per_cluster) * fs.bytes_per_sector

\* the loop of read_cluster_chain
RECURSIVE chain_loop(_, _, _, _, _, _, _)
chain_loop(fs, cluster_chain, chain_len, loc, count, progress, buf) ==
    IF ~(progress < count) THEN [ok |-> TRUE, buf |-> buf]
    ELSE
      LET block_size == fs.sectors_per_cluster * fs.bytes_per_sector
          block == (loc + progress) \div block_size
      IN  IF block >= chain_len THEN [ok |-> FALSE, buf |-> buf]
          ELSE
            LET cluster == cluster_chain[block + 1]
                offset == (loc + progress) % block_size
                chunk == IF count - progress > block_size - offset
                         THEN block_size - offset
                         ELSE count - progress
            IN  IF cluster < 2 THEN [ok |-> FALSE, buf |-> buf]
                ELSE bind(fat_volume_read(fs, cluster_base(fs, cluster) + offset, chunk),
                          LAMBDA r :
                            IF r.ret # "true" THEN [ok |-> FALSE, buf |-> buf]
                            ELSE chain_loop(fs, cluster_chain, chain_len, loc, count,
                                            progress + chunk, join(buf, r.buf)))

\* read_cluster_chain(context, cluster_chain, chain_len, buf, loc, count):
\* [ok, buf]
read_cluster_chain(fs, cluster_chain, chain_len, loc, count) ==
    chain_loop(fs, cluster_chain, chain_len, loc, count, 0, <<>>)

\* Characters and names
NUL == "NUL"
SPACE == " "
toupper(c) ==
    CASE c = "a" -> "A" [] c = "b" -> "B" [] c = "x" -> "X" [] OTHER -> c

\* the loop of fat32_filename_to_8_3 (i counts from 1)
RECURSIVE to_8_3_loop(_, _, _, _, _)
to_8_3_loop(src, i, j, ext, dest) ==
    IF i > Len(src) THEN [ok |-> TRUE, dest |-> dest]
    ELSE IF src[i] = "."
    THEN IF ext THEN [ok |-> FALSE, dest |-> dest]
         ELSE to_8_3_loop(src, i + 1, 8, TRUE, dest)
    ELSE IF j >= 8 + 3 \/ (j >= 8 /\ ~ext) THEN [ok |-> FALSE, dest |-> dest]
    ELSE to_8_3_loop(src, i + 1, j + 1, ext, [dest EXCEPT ![j + 1] = toupper(src[i])])

\* fat32_filename_to_8_3(dest, src): [ok, dest]
fat32_filename_to_8_3(src) ==
    to_8_3_loop(src, 1, 0, FALSE, [k \in 1..(8 + 3) |-> SPACE])

\* Directory entries
dir_entry(name, attribute, high, low, size) ==
    [file_name_and_ext |-> name, attribute |-> attribute,
     cluster_num_high |-> high, cluster_num_low |-> low, file_size_bytes |-> size]

\* an entry of zero bytes: it ends a directory
zero_entry == dir_entry([k \in 1..(8 + 3) |-> NUL], 0, 0, 0, 0)

\* the first cluster that a directory entry names
entry_cluster(fs, e) ==
    IF fs.type = 32 THEN e.cluster_num_low + 65536 * e.cluster_num_high
    ELSE e.cluster_num_low

\* the directory entries that the clusters of a chain hold, in order
RECURSIVE chain_entries(_, _)
chain_entries(fs, chain) ==
    IF chain = <<>> THEN <<>>
    ELSE (IF chain[1] \in DOMAIN fs.dirs THEN fs.dirs[chain[1]] ELSE <<>>)
         \o chain_entries(fs, Tail(chain))

\* the name argument of fat32_open_in when it is NULL: the volume label is
\* looked for
NULL_NAME == <<NUL>>

\* the scan of a directory buffer for a name: [ret, file]; for NULL_NAME
\* file is the entry of the label, which the scan copies to a new block r
RECURSIVE scan_entries(_, _, _)
scan_entries(entries, i, name) ==
    IF i > Len(entries) THEN [ret |-> -1, file |-> zero_entry]
    ELSE IF entries[i].file_name_and_ext[1] = NUL THEN [ret |-> -1, file |-> zero_entry]
    ELSE IF name = NULL_NAME
    THEN IF entries[i].attribute # FAT32_ATTRIBUTE_VOLLABEL
         THEN scan_entries(entries, i + 1, name)
         ELSE [ret |-> 0, file |-> entries[i]]
    ELSE IF (entries[i].attribute \div FAT32_ATTRIBUTE_VOLLABEL) % 2 = 1
    THEN scan_entries(entries, i + 1, name)
    ELSE LET fn == fat32_filename_to_8_3(name)
         IN  IF ~fn.ok THEN scan_entries(entries, i + 1, name)
             ELSE IF entries[i].file_name_and_ext = fn.dest
             THEN [ret |-> 0, file |-> entries[i]]
             ELSE scan_entries(entries, i + 1, name)

\* the directory that fat32_open_in is given: the fixed root of FAT12/16
\* (a NULL pointer in the code) or a directory entry
fixed_root == [fixed |-> TRUE, entry |-> zero_entry]
directory_of(e) == [fixed |-> FALSE, entry |-> e]

\* the largest directory buffer fat32_open_in allocates
MAX_DIR_BYTES == 268435456

\* the events of cache_cluster_chain, given what it returned: the chain is
\* allocated once the first loop has found its length, and freed when a read
\* of the second loop fails
chain_mem(c, name) ==
    IF c.second_pass = 0 THEN <<>>
    ELSE <<ev("alloc", name, 0, c.first_pass, "uint32_t")>>
         \o (IF c.null THEN <<ev("free", name, 0, c.first_pass, "uint32_t")>> ELSE <<>>)

\* the end of fat32_open_in: the scan of the buffer, the block r of a label
\* found, and `out: pmm_free(directory_entries, ...)`
scan_and_free(entries, name, mem, bytes) ==
    bind(scan_entries(entries, 1, name),
         LAMBDA r :
           [ret |-> r.ret, file |-> r.file,
            mem |-> mem \o <<ev("read", "directory_entries", 0, 0, "byte")>>
                        \o (IF name = NULL_NAME /\ r.ret = 0
                             THEN <<ev("alloc", "r", 0, 12, "byte")>> ELSE <<>>)
                        \o <<ev("free", "directory_entries", 0, bytes, "byte")>>])

\* fat32_open_in(context, directory, file, name): [ret, file, mem]
fat32_open_in(fs, directory, name) ==
    LET block_size == fs.sectors_per_cluster * fs.bytes_per_sector
        not_found(mem) == [ret |-> -1, file |-> zero_entry, mem |-> mem]
        buffer(n) == <<ev("alloc", "directory_entries", 0, n, "byte")>>
        free_buffer(n) == <<ev("free", "directory_entries", 0, n, "byte")>>
        free_chain(n) == <<ev("free", "directory_cluster_chain", 0, n, "uint32_t")>>
    IN  IF ~directory.fixed
        THEN bind(cache_cluster_chain(fs, entry_cluster(fs, directory.entry)),
                  LAMBDA c :
                    bind(chain_mem(c, "directory_cluster_chain"),
                         LAMBDA mem :
                    IF c.null THEN not_found(mem)
                    ELSE IF c.chain_length * block_size > MAX_DIR_BYTES
                    THEN not_found(mem \o free_chain(c.chain_length))
                    ELSE IF ~read_cluster_chain(fs, c.chain, c.chain_length, 0,
                                                c.chain_length * block_size).ok
                    THEN not_found(mem \o buffer(c.chain_length * block_size)
                                       \o free_buffer(c.chain_length * block_size)
                                       \o free_chain(c.chain_length))
                    ELSE scan_and_free(chain_entries(fs, c.chain), name,
                                       mem \o buffer(c.chain_length * block_size)
                                           \o free_chain(c.chain_length),
                                       c.chain_length * block_size)))
        ELSE LET dir_chain_len == (fs.root_entries * 32 + block_size - 1) \div block_size
             IN  IF dir_chain_len * block_size > MAX_DIR_BYTES THEN not_found(<<>>)
                 ELSE IF fat_volume_read(fs, fs.root_start * fs.bytes_per_sector,
                                         fs.root_entries * 32).ret # "true"
                 THEN not_found(buffer(dir_chain_len * block_size)
                                \o free_buffer(dir_chain_len * block_size))
                 ELSE scan_and_free(SubSeq(fs.root, 1, Min(Len(fs.root), fs.root_entries)),
                                    name, buffer(dir_chain_len * block_size),
                                    dir_chain_len * block_size)

\* the position of the first '/' or of the end of the path at or after i
component_end(path, i) ==
    IF i > Len(path) THEN i
    ELSE CHOOSE j \in i..(Len(path) + 1) :
            /\ j > Len(path) \/ path[j] = "/"
            /\ \A k \in i..(j - 1) : path[k] # "/"

RECURSIVE skip_slashes(_, _)
skip_slashes(path, i) ==
    IF i <= Len(path) /\ path[i] = "/" THEN skip_slashes(path, i + 1) ELSE i

no_handle ==
    [first_cluster |-> 0, size_clusters |-> 0, size_bytes |-> 0,
     chain_null |-> TRUE, cluster_chain |-> <<>>, chain_len |-> 0]

\* what fat32_open hands back: null, or the handle; found: the directory entry
\* file of the last path component was found; walk: the chain walk made for
\* it; mem: the memory events of the call
opened(null, found, file, handle, walk, mem) ==
    [null |-> null, found |-> found, file |-> file, handle |-> handle, walk |-> walk,
     mem |-> mem]

\* the end of fat32_open, once the entry of the file is found
open_file(fs, current_file, mem) ==
    LET first_cluster == entry_cluster(fs, current_file)
        handle == <<ev("alloc", "handle", 0, 1, "file_handle"),
                    ev("alloc", "ret", 0, 1, "fat32_file_handle")>>
    IN  bind(cache_cluster_chain(fs, first_cluster),
             LAMBDA c :
               IF c.null /\ current_file.file_size_bytes # 0
               THEN opened(TRUE, TRUE, current_file, no_handle, c,
                           mem \o handle \o chain_mem(c, "cluster_chain")
                               \o <<ev("free", "ret", 0, 1, "fat32_file_handle"),
                                     ev("free", "handle", 0, 1, "file_handle")>>)
               ELSE opened(FALSE, TRUE, current_file,
                           [first_cluster |-> first_cluster,
                            size_clusters |->
                                (current_file.file_size_bytes + fs.bytes_per_sector - 1)
                                    \div fs.bytes_per_sector,
                            size_bytes |-> current_file.file_size_bytes,
                            chain_null |-> c.null,
                            cluster_chain |-> c.chain,
                            chain_len |-> IF c.set_len THEN c.chain_length ELSE 0],
                           c, mem \o handle \o chain_mem(c, "cluster_chain")))

\* the walk of fat32_open down the directories, one path component per step,
\* step n being the n-th.  The paths of the model are shorter than a
\* component may be.
RECURSIVE open_walk(_, _, _, _, _, _)
open_walk(fs, path, current_index, current_directory, n, mem) ==
    LET e == component_end(path, current_index)
        current_part == SubSeq(path, current_index, e - 1)
        expect_directory == e <= Len(path)
    IN  bind(fat32_open_in(fs, current_directory, current_part),
             LAMBDA r :
               IF r.ret # 0
               THEN opened(TRUE, FALSE, zero_entry, no_handle, no_chain(0, 0),
                           mem \o numbered(r.mem, n))
               ELSE IF expect_directory
               THEN open_walk(fs, path, e + 1, directory_of(r.file), n + 1,
                              mem \o numbered(r.mem, n))
               ELSE open_file(fs, r.file, mem \o numbered(r.mem, n)))

\* the directory the walk starts in
root_directory(fs) ==
    IF fs.type = 32
    THEN directory_of(dir_entry([k \in 1..(8 + 3) |-> SPACE], 0,
                                fs.root_directory_cluster \div 65536,
                                fs.root_directory_cluster % 65536, 0))
    ELSE fixed_root

\* the end of fat32_init_context: the lookup of the volume label in the root
\* directory, [ret, file, mem]
get_label(fs) == fat32_open_in(fs, root_directory(fs), NULL_NAME)

\* fat32_open(part, path) on a volume whose BPB fat32_init_context accepted
fat32_open(fs, path) ==
    open_walk(fs, path, skip_slashes(path, 1), root_directory(fs), 1, get_label(fs).mem)

\* fat32_read(file, buf, loc, count): "done" with the bytes, or "panic"
fat32_read(fs, f, loc, count) ==
    bind(read_cluster_chain(fs, f.cluster_chain, f.chain_len, loc, count),
         LAMBDA r : IF ~r.ok THEN [ret |-> "panic", buf |-> <<>>]
                    ELSE [ret |-> "done", buf |-> r.buf])

-----------------------------------------------------------------------------
(* The FAT images and the calls of the model *)

\* end-of-chain mark of a FAT type
EOC(type) == CASE type = 12 -> 4095 [] type = 16 -> 65535 [] OTHER -> 268435455

\* a cluster number within the limit of the type whose entry lies past the
\* end of the FAT of the images
FarCluster(type) == CASE type = 12 -> 400 [] type = 16 -> 5000 [] OTHER -> 70000

\* clusters 2..DataClusters + 1 lie in the data region of the small image;
\* FAT16 and FAT32 images have the fewest clusters their type allows
DataClusters(type) == CASE type = 12 -> 12 [] type = 16 -> 4085 [] OTHER -> 65525

\* The first FAT: the two reserved entries, then the links given in next,
\* a function from clusters to entries; clusters it leaves out are free
fat_table(type, next) ==
    [i \in 1..15 |->
        CASE i = 1 -> EOC(type) - 7
          [] i = 2 -> EOC(type)
          [] i - 1 \in DOMAIN next -> next[i - 1]
          [] OTHER -> 0]

\* The chains of the images.  Cluster 2 is the root directory of FAT32 and
\* cluster 13 the directory A; the file starts at cluster 3.
FatShapes(type) ==
    LET E == EOC(type)
        dirs == (2 :> E) @@ (13 :> E)
    IN  { dirs @@ (3 :> E),                            \* one cluster
          dirs @@ (3 :> 4) @@ (4 :> E),                \* two clusters
          dirs @@ (3 :> 7) @@ (7 :> 4) @@ (4 :> 9) @@ (9 :> 5) @@ (5 :> 8)
               @@ (8 :> 6) @@ (6 :> 10) @@ (10 :> 11) @@ (11 :> 12) @@ (12 :> E),
          dirs @@ (3 :> 4) @@ (4 :> 3),                \* a cycle of two
          dirs @@ (3 :> 3),                            \* a cycle of one
          dirs @@ (3 :> 4) @@ (4 :> 5) @@ (5 :> 4),    \* a cycle after a tail
          dirs @@ (3 :> 0),                            \* a link to a free entry
          dirs @@ (3 :> 14) @@ (14 :> E),              \* a cluster past the data region
          dirs @@ (3 :> FarCluster(type)),             \* an entry past the FAT
          (2 :> 2) @@ (13 :> 13) @@ (3 :> E) }         \* directories that cycle

name_field(c) == [k \in 1..(8 + 3) |-> IF k = 1 THEN c ELSE SPACE]

\* the entries of the root directory: the label, the file X and the directory A
root_entries_of(first_cluster, size) ==
    << dir_entry(name_field("L"), FAT32_ATTRIBUTE_VOLLABEL, 0, 0, 0),
       dir_entry(name_field("X"), 32, 0, first_cluster, size),
       dir_entry(name_field("A"), 16, 0, 13, 0) >>

\* the FAT image of a type, cluster size, transfer size, chain shape and file
fat_image(type, spc, xfer, next, first_cluster, size) ==
    LET sectors_per_fat == CASE type = 12 -> 1 [] type = 16 -> 16 [] OTHER -> 512
        root_start == 1 + sectors_per_fat
        root_size == IF type = 32 THEN 0 ELSE 1
        data_start == root_start + root_size
        total == data_start + DataClusters(type) * spc
        root == root_entries_of(first_cluster, size)
        sub == << dir_entry(name_field("B"), 32, 0, first_cluster, size) >>
    IN  [type |-> type, bytes_per_sector |-> 512, sectors_per_cluster |-> spc,
         fat_start_lba |-> 1, sectors_per_fat |-> sectors_per_fat,
         root_start |-> root_start,
         root_entries |-> IF type = 32 THEN 0 ELSE 16,
         data_start_lba |-> data_start,
         root_directory_cluster |-> IF type = 32 THEN 2 ELSE 0,
         part |-> new_volume(<<2048, total, 512>>, xfer, FALSE),
         dev_sects |-> 2048 + total,
         fat |-> fat_table(type, next),
         rsvd |-> IF type = 32 THEN 15 ELSE 0,
         root |-> IF type = 32 THEN <<>> ELSE root,
         dirs |-> IF type = 32 THEN (2 :> root) @@ (13 :> sub) ELSE (13 :> sub)]

\* first cluster and recorded size of the file: an empty file without
\* clusters, and files of no, one and several bytes that start at cluster 3
FatFiles == { <<0, 0>>, <<3, 0>>, <<3, 1>>, <<3, 700>> }

FatImages ==
    UNION { { fat_image(type, spc, xfer, next, f[1], f[2]) :
                spc \in {1, 2}, xfer \in {1, MaxXfer},
                next \in FatShapes(type), f \in FatFiles } :
            type \in {12, 16, 32} }

FatPaths ==
    { <<"/", "X">>, <<"/", "x">>, <<"X">>, <<"/", "Y">>, <<"/", "A", "/", "B">>,
      <<"/", "X", "/">>, <<"/", "A", "/", "/", "B">>, <<"/", "/", "A", "/", "B">> }

\* positions and lengths at the edges of clusters
FatLocs(fs) ==
    LET B == fs.sectors_per_cluster * fs.bytes_per_sector
    IN  {0, B - 1, 2 * B + 5, 10 * B - 1}
FatCounts(fs) ==
    LET B == fs.sectors_per_cluster * fs.bytes_per_sector
    IN  {0, 1, 2, B + 1}

open_record(path, r) ==
    [called |-> TRUE, path |-> path, null |-> r.null, found |-> r.found,
     file |-> r.file, handle |-> r.handle, walk |-> r.walk, mem |-> r.mem,
     closed |-> <<>>]

NoOpen ==
    [called |-> FALSE, path |-> <<>>, null |-> TRUE, found |-> FALSE,
     file |-> zero_entry, handle |-> no_handle, walk |-> no_chain(0, 0), mem |-> <<>>,
     closed |-> <<>>]
NoRead == [called |-> FALSE, loc |-> 0, count |-> 0, ret |-> "none", buf |-> <<>>]

\* fat32_open of any of the paths, when no file is open
FatOpen ==
    /\ ~fopen.called
    /\ \E path \in FatPaths : fopen' = open_record(path, fat32_open(fatfs, path))
    /\ fread' = NoRead
    /\ UNCHANGED fatfs
    /\ VolumeIdle
    /\ PartIdle
    /\ IsoIdle
    /\ PathIdle
    /\ IndexIdle
    /\ ContextIdle
    /\ FormatIdle

\* fat32_read on the open handle
FatRead ==
    /\ fopen.called
    /\ ~fopen.null
    /\ \E loc \in FatLocs(fatfs), count \in FatCounts(fatfs) :
        fread' = bind(fat32_read(fatfs, fopen.handle, loc, count),
                      LAMBDA r : [called |-> TRUE, loc |-> loc, count |-> count,
                                  ret |-> r.ret, buf |-> r.buf])
    /\ UNCHANGED <<fatfs, fopen>>
    /\ VolumeIdle
    /\ PartIdle
    /\ IsoIdle
    /\ PathIdle
    /\ IndexIdle
    /\ ContextIdle
    /\ FormatIdle

\* the memory events of fat32_close(file)
fat32_close(f) ==
    <<ev("free", "cluster_chain", 0, f.chain_len, "uint32_t"),
      ev("free", "ret", 0, 1, "fat32_file_handle")>>

\* fat32_close of the open handle, or the caller dropping the null result;
\* the record of the open call is kept with the events of the close
FatClose ==
    /\ fopen.called
    /\ fopen' = [fopen EXCEPT !.called = FALSE,
                              !.closed = IF fopen.null THEN <<>>
                                         ELSE fat32_close(fopen.handle)]
    /\ fread' = NoRead
    /\ UNCHANGED fatfs
    /\ VolumeIdle
    /\ PartIdle
    /\ IsoIdle
    /\ PathIdle
    /\ IndexIdle
    /\ ContextIdle
    /\ FormatIdle

-----------------------------------------------------------------------------
(* Properties of the FAT driver *)

\* the links of the image from a cluster come back to a cluster already
\* passed: the chain that starts there forms a cycle
RECURSIVE chain_cycles(_, _, _)
chain_cycles(fs, cluster, seen) ==
    IF cluster < 2 \/ cluster > cluster_limit(fs) THEN FALSE
    ELSE IF cluster \in seen THEN TRUE
    ELSE chain_cycles(fs, fat_entry(fs, cluster), seen \cup {cluster})

\* C11: when the cluster chain that starts at the first cluster of the file
\* forms a cycle, fat32_open returns null, whatever size the directory entry
\* records, and each pass of the chain walk reads the FAT at most
\* min(cluster_limit - 1, 16 Mi) times.
C11_CycleOpensNull ==
    (fopen.called /\ fopen.found
        /\ chain_cycles(fatfs, entry_cluster(fatfs, fopen.file), {}))
    => /\ fopen.null
       /\ fopen.walk.first_pass <= max_clusters(fatfs)
       /\ fopen.walk.second_pass <= max_clusters(fatfs)

\* the place of byte i (from 0) of a buffer: <<sector, offset>>
RECURSIVE byte_of(_, _)
byte_of(buf, i) ==
    IF i < buf[1][3] THEN <<buf[1][1], buf[1][2] + i>>
    ELSE byte_of(Tail(buf), i - buf[1][3])

\* the place of the byte at an offset of a volume
volume_byte(v, offset) ==
    <<first_sector_of(v) + offset \div v.sector_size, offset % v.sector_size>>

\* byte k of the file of the open handle lies in block k \div B of its chain
file_block(k) ==
    k \div (fatfs.sectors_per_cluster * fatfs.bytes_per_sector)

\* the block of byte k is in the cached chain and its cluster is one of the
\* data region
block_in_chain(k) ==
    /\ file_block(k) < fopen.handle.chain_len
    /\ fopen.handle.cluster_chain[file_block(k) + 1] >= 2

\* the volume offset that the cached chain gives byte k of the file
mapped_offset(k) ==
    (fatfs.data_start_lba
        + (fopen.handle.cluster_chain[file_block(k) + 1] - 2) * fatfs.sectors_per_cluster)
      * fatfs.bytes_per_sector
    + (k % (fatfs.sectors_per_cluster * fatfs.bytes_per_sector))

read_range == fread.loc .. (fread.loc + fread.count - 1)

\* C12: fat32_read delivers, for every k in [loc, loc + count), the volume
\* byte at (data_start_lba + (c[k div B] - 2) * sectors_per_cluster) *
\* bytes_per_sector + k mod B, c being the cached chain of the handle and B
\* the cluster size; it panics when a block it needs is outside the chain or
\* a chain entry is below 2, and it delivers whenever the chain maps the
\* whole range into the volume.
C12_ReadMapping ==
    fread.called =>
        /\ (\E k \in read_range : ~block_in_chain(k)) => fread.ret = "panic"
        /\ fread.ret = "done" =>
              /\ buf_len(fread.buf) = fread.count
              /\ \A k \in read_range :
                    byte_of(fread.buf, k - fread.loc)
                        = volume_byte(fatfs.part, mapped_offset(k))
        /\ (\A k \in read_range :
                /\ block_in_chain(k)
                /\ mapped_offset(k) < fatfs.part.sect_count * fatfs.part.sector_size)
            => fread.ret = "done"

\* a read that starts inside one cluster of the fragmented chain and ends in
\* the next block, whose cluster lies elsewhere
C12_Witness ==
    /\ fread.called
    /\ fread.ret = "done"
    /\ fopen.handle.cluster_chain = <<3, 7, 4, 9, 5, 8, 6, 10, 11, 12>>
    /\ file_block(fread.loc) = 2
    /\ file_block(fread.loc + fread.count - 1) = 3

\* C22: when fat32_open returns null, every block that the call allocated
\* has been freed before it returns; and fat32_close frees the cluster chain
\* of the handle, in its length, and the handle.
C22_NoLeaks ==
    /\ (fopen.called /\ fopen.null) => left(fopen.mem) = {}
    /\ (~fopen.called /\ ~fopen.null)
         => /\ left(fopen.mem \o fopen.closed) \subseteq {<<"handle", 0>>}
            /\ \E i \in 1..Len(fopen.closed) :
                  fopen.closed[i] = ev("free", "cluster_chain", 0, fopen.handle.chain_len,
                                       "uint32_t")

\* C27: fat32_open of "/A//B" and of "//A/B" hands back what fat32_open of
\* "/A/B" hands back on the same volume: null for both or a handle of the
\* same entry with the same cluster chain; and the file that "/A/B" opens is
\* an entry of the directory that the entry A of the root directory names.
C27_PathWalk ==
    /\ (fopen.called /\ fopen.path \in {<<"/", "A", "/", "/", "B">>, <<"/", "/", "A", "/", "B">>})
         => bind(fat32_open(fatfs, <<"/", "A", "/", "B">>),
                 LAMBDA r : /\ fopen.null = r.null
                            /\ fopen.file = r.file
                            /\ fopen.handle = r.handle)
    /\ (fopen.called /\ fopen.path = <<"/", "A", "/", "B">> /\ ~fopen.null)
         => \E i \in 1..Len(fatfs.dirs[13]) : fatfs.dirs[13][i] = fopen.file

\* a chain of length n that starts with the cluster initial, whose clusters
\* lie between 2 and the limit of the type, follow one another in the FAT
\* and are all different, n being at most the limit less one and 16 Mi
well_formed(fs, initial, chain, n) ==
    LET limit == CASE fs.type = 12 -> 4079 [] fs.type = 16 -> 65519 [] OTHER -> 268435439
    IN  /\ n = Len(chain)
        /\ n >= 1
        /\ n <= Min(limit - 1, 16 * 1024 * 1024)
        /\ chain[1] = initial
        /\ \A i \in 1..n : chain[i] >= 2 /\ chain[i] <= limit
        /\ \A i \in 1..(n - 1) : chain[i + 1] = fat_entry(fs, chain[i])
        /\ \A i, j \in 1..n : chain[i] = chain[j] => i = j

\* C28: the cluster chain of an open handle, and the chain that
\* cache_cluster_chain returns for the cluster of a directory, is well formed.
C28_ChainWellFormed ==
    fopen.called =>
      /\ (~fopen.null /\ ~fopen.handle.chain_null)
            => well_formed(fatfs, entry_cluster(fatfs, fopen.file),
                           fopen.handle.cluster_chain, fopen.handle.chain_len)
      /\ \A d \in {2, 13} :
            bind(cache_cluster_chain(fatfs, d),
                 LAMBDA c : ~c.null => well_formed(fatfs, d, c.chain, c.chain_length))

\* an open handle on the file of ten clusters that lie out of order
C28_Witness ==
    /\ fopen.called
    /\ ~fopen.null
    /\ fopen.handle.cluster_chain = <<3, 7, 4, 9, 5, 8, 6, 10, 11, 12>>
    /\ fopen.handle.chain_len = 10

-----------------------------------------------------------------------------
(* Part 4: the ISO9660 driver (load_name, iso9660_next_entry, iso9660_find,
   iso9660_open, iso9660_read)

   Bytes of directories are numbers 0..255 and names are sequences of
   character codes.  A directory buffer d holds d.size bytes: d.recs are
   the records stored in it, each with its offset (at) and its bytes, every
   other byte of the buffer is 0, and a read past the end of the buffer
   finds the memory that follows it: the bytes d.heap, then zeroes.  The buffers start on a sector boundary of memory
   (ext_mem_alloc hands out whole pages), so that the sector boundaries of
   addresses are those of offsets.  The bytes of files are identified by
   where they are stored, as in Part 1. *)

ISO9660_SECTOR_SIZE == 2048
ISO9660_FLAG_MULTI_EXTENT == 128
ISO9660_MAX_EXTENT_COUNT == 65536
ISO9660_MAX_DIR_SIZE == 67108864
ROCK_RIDGE_MAX_FILENAME == 255
\* sizeof(struct iso9660_directory_entry)
ISO_ENTRY_SIZE == 33

Lower == <<"a", "b", "c", "d", "e", "f", "g", "h", "i", "j", "k", "l", "m",
           "n", "o", "p", "q", "r", "s", "t", "u", "v", "w", "x", "y", "z">>
Upper == <<"A", "B", "C", "D", "E", "F", "G", "H", "I", "J", "K", "L", "M",
           "N", "O", "P", "Q", "R", "S", "T", "U", "V", "W", "X", "Y", "Z">>

\* the code of a character
ascii(c) ==
    IF \E i \in 1..26 : Lower[i] = c THEN 96 + (CHOOSE i \in 1..26 : Lower[i] = c)
    ELSE IF \E i \in 1..26 : Upper[i] = c THEN 64 + (CHOOSE i \in 1..26 : Upper[i] = c)
    ELSE CASE c = "." -> 46 [] c = ";" -> 59 [] c = "/" -> 47 [] c = "1" -> 49
           [] c = "_" -> 95 [] OTHER -> 0

\* the codes of a string written as a sequence of characters
codes(s) == [i \in 1..Len(s) |-> ascii(s[i])]

tolower(c) == IF c >= 65 /\ c <= 90 THEN c + 32 ELSE c

\* the C string held in a char array: the bytes before the first 0
c_string(a) ==
    SubSeq(a, 1, (CHOOSE j \in 1..(Len(a) + 1) :
                     /\ j > Len(a) \/ a[j] = 0
                     /\ \A k \in 1..(j - 1) : a[k] # 0) - 1)

\* strcmp(a, b) == 0 and strcasecmp(a, b) == 0
strcmp_eq(a, b) == c_string(a) = c_string(b)
strcasecmp_eq(a, b) ==
    LET x == c_string(a)
        y == c_string(b)
    IN  Len(x) = Len(y) /\ \A i \in 1..Len(x) : tolower(x[i]) = tolower(y[i])

\* the byte of a directory buffer at an offset
byte_at(d, o) ==
    IF o >= d.size
    THEN IF o - d.size < Len(d.heap) THEN d.heap[o - d.size + 1] ELSE 0
    ELSE IF \E r \in d.recs : r.at <= o /\ o < r.at + Len(r.bytes)
    THEN LET r == CHOOSE r \in d.recs : r.at <= o /\ o < r.at + Len(r.bytes)
         IN  r.bytes[o - r.at + 1]
    ELSE 0

\* a 32-bit little-endian field
le32(d, o) ==
    byte_at(d, o) + 256 * byte_at(d, o + 1) + 65536 * byte_at(d, o + 2)
        + 16777216 * byte_at(d, o + 3)

\* the fields of struct iso9660_directory_entry that the driver reads, of the
\* entry at offset o
entry_length(d, o) == byte_at(d, o)
entry_extent(d, o) == le32(d, o + 2)
entry_extent_size(d, o) == le32(d, o + 10)
entry_flags(d, o) == byte_at(d, o + 25)
entry_filename_size(d, o) == byte_at(d, o + 32)
entry_name(d, o, n) == [j \in 1..n |-> byte_at(d, o + ISO_ENTRY_SIZE + j - 1)]

\* The loop of load_name over the System Use Area: the offset of the NM
\* entry it settles on and the length of its name, or no entry (nm = -1)
RECURSIVE sysarea_loop(_, _, _)
sysarea_loop(d, sysarea, sysarea_len) ==
    IF ~(sysarea_len >= 4 /\ byte_at(d, sysarea + 3) = 1)
    THEN [nm |-> -1, rrnamelen |-> 0]
    ELSE IF byte_at(d, sysarea + 2) > sysarea_len THEN [nm |-> -1, rrnamelen |-> 0]
    ELSE IF byte_at(d, sysarea) = ascii("N") /\ byte_at(d, sysarea + 1) = ascii("M")
    THEN IF byte_at(d, sysarea + 2) >= 5 /\ byte_at(d, sysarea + 2) <= sysarea_len
         THEN [nm |-> sysarea, rrnamelen |-> byte_at(d, sysarea + 2) - 5]
         ELSE [nm |-> -1, rrnamelen |-> 0]
    ELSE IF byte_at(d, sysarea + 2) = 0 THEN [nm |-> -1, rrnamelen |-> 0]
    ELSE sysarea_loop(d, sysarea + byte_at(d, sysarea + 2),
                      sysarea_len - byte_at(d, sysarea + 2))

\* the loop of load_name that copies the ISO name up to its version suffix
RECURSIVE iso_name_loop(_, _, _)
iso_name_loop(name, j, name_len) ==
    IF ~(j < name_len) THEN <<>>
    ELSE IF name[j + 1] = ascii(";") THEN <<>>
    ELSE IF name[j + 1] = ascii(".") /\ j + 1 < name_len /\ name[j + 2] = ascii(";")
    THEN <<>>
    ELSE <<name[j + 1]>> \o iso_name_loop(name, j + 1, name_len)

\* use_iso_name of load_name: [rr, panic, name]
use_iso_name(d, o, limit) ==
    LET length == entry_length(d, o)
        filename_size == entry_filename_size(d, o)
        name_len == IF length < ISO_ENTRY_SIZE + filename_size
                    THEN IF length <= ISO_ENTRY_SIZE THEN 0
                         ELSE length - ISO_ENTRY_SIZE
                    ELSE filename_size
    IN  IF filename_size >= limit THEN [rr |-> FALSE, panic |-> TRUE, name |-> <<>>]
        ELSE [rr |-> FALSE, panic |-> FALSE,
              name |-> iso_name_loop(entry_name(d, o, name_len), 0, name_len)]

\* mutant of load_name: the System Use Area is never looked at
load_name_without_rock_ridge(d, o, limit) == use_iso_name(d, o, limit)

\* load_name(buf, limit, entry) for the entry at offset o: [rr, panic, name];
\* rr is the value returned, name the string left in buf
load_name(d, o, limit) ==
    LET length == entry_length(d, o)
        filename_size == entry_filename_size(d, o)
        after_name == o + ISO_ENTRY_SIZE + filename_size
        area_len == length - ISO_ENTRY_SIZE - filename_size
        even == filename_size % 2 = 0
    IN  IF length < ISO_ENTRY_SIZE + filename_size THEN use_iso_name(d, o, limit)
        ELSE IF even /\ area_len = 0 THEN use_iso_name(d, o, limit)
        ELSE bind(sysarea_loop(d, IF even THEN after_name + 1 ELSE after_name,
                                  IF even THEN area_len - 1 ELSE area_len),
                  LAMBDA s :
                    IF s.rrnamelen > 0 /\ s.nm # -1
                    THEN IF s.rrnamelen >= limit
                         THEN [rr |-> TRUE, panic |-> TRUE, name |-> <<>>]
                         ELSE [rr |-> TRUE, panic |-> FALSE,
                               name |-> [j \in 1..s.rrnamelen |->
                                            byte_at(d, s.nm + 5 + j - 1)]]
                    ELSE use_iso_name(d, o, limit))

ALIGN_UP(x, a) == ((x + a - 1) \div a) * a
ALIGN_DOWN(x, a) == (x \div a) * a

\* what iso9660_next_entry returns when there is no entry
NO_ENTRY == -1

\* iso9660_next_entry(current, buffer_end), in offsets of the buffer
iso9660_next_entry(d, current, buffer_end) ==
    IF entry_length(d, current) = 0
    THEN LET next_sector == ALIGN_UP(current + 1, ISO9660_SECTOR_SIZE)
         IN  IF next_sector >= buffer_end THEN NO_ENTRY
             ELSE IF entry_length(d, next_sector) = 0 THEN NO_ENTRY
             ELSE next_sector
    ELSE LET next == current + entry_length(d, current)
         IN  IF next >= buffer_end THEN NO_ENTRY
             ELSE IF entry_length(d, next) = 0
             THEN LET next_sector == ALIGN_UP(next + 1, ISO9660_SECTOR_SIZE)
                  IN  IF next_sector >= buffer_end THEN NO_ENTRY
                      ELSE IF entry_length(d, next_sector) = 0 THEN NO_ENTRY
                      ELSE IF entry_length(d, next_sector) < ISO_ENTRY_SIZE THEN NO_ENTRY
                      ELSE next_sector
             ELSE IF entry_length(d, next) < ISO_ENTRY_SIZE THEN NO_ENTRY
             ELSE next

\* does the entry at offset o carry the name filename
name_matches(d, o, filename, case_insensitive_fopen) ==
    bind(load_name(d, o, 256),
         LAMBDA n :
           [panic |-> n.panic, rr |-> n.rr, name |-> n.name,
            match |-> ~n.panic /\
                      IF n.rr /\ ~case_insensitive_fopen
                      THEN strcmp_eq(filename, n.name)
                      ELSE strcasecmp_eq(filename, n.name)])

\* the loop of iso9660_find: buffer is the offset the scan has come to and
\* size the bytes left.  [at, panic, seen]: the offset of the entry found or
\* NO_ENTRY, and the offsets the scan read an entry at, in order
RECURSIVE find_loop(_, _, _, _, _, _)
find_loop(d, buffer, size, filename, ci, seen) ==
    IF size = 0 THEN [at |-> NO_ENTRY, panic |-> FALSE, seen |-> seen]
    ELSE IF entry_length(d, buffer) = 0
    THEN IF size <= ISO9660_SECTOR_SIZE
         THEN [at |-> NO_ENTRY, panic |-> FALSE, seen |-> Append(seen, buffer)]
         ELSE LET aligned == ALIGN_DOWN(size, ISO9660_SECTOR_SIZE)
              IN  IF aligned = size
                  THEN find_loop(d, buffer + ISO9660_SECTOR_SIZE,
                                 size - ISO9660_SECTOR_SIZE, filename, ci,
                                 Append(seen, buffer))
                  ELSE find_loop(d, buffer + (size - aligned), aligned, filename, ci,
                                 Append(seen, buffer))
    ELSE IF entry_length(d, buffer) > size
    THEN [at |-> NO_ENTRY, panic |-> FALSE, seen |-> Append(seen, buffer)]
    ELSE IF entry_length(d, buffer) < ISO_ENTRY_SIZE
    THEN [at |-> NO_ENTRY, panic |-> FALSE, seen |-> Append(seen, buffer)]
    ELSE bind(name_matches(d, buffer, filename, ci),
              LAMBDA n :
                IF n.panic THEN [at |-> NO_ENTRY, panic |-> TRUE, seen |-> Append(seen, buffer)]
                ELSE IF n.match
                THEN [at |-> buffer, panic |-> FALSE, seen |-> Append(seen, buffer)]
                ELSE find_loop(d, buffer + entry_length(d, buffer),
                               size - entry_length(d, buffer), filename, ci,
                               Append(seen, buffer)))

\* iso9660_find(buffer, size, filename)
iso9660_find(d, filename, ci) == find_loop(d, 0, d.size, filename, ci, <<>>)

\* volume_read as the driver uses it, on a device that serves what lies
\* within its size
iso_volume_read(img, loc, count) ==
    volume_read([img.vol EXCEPT !.cache_status = CACHE_NOT_READY],
                healthy_disk(img, img.vol), loc, count)

\* the directory buffer that a read of size bytes at an LBA fills
dir_buffer(img, lba, size) ==
    [size |-> size, heap |-> img.heap,
     recs |-> IF lba \in DOMAIN img.dirs THEN img.dirs[lba] ELSE {}]

no_buffer == [size |-> 0, heap |-> <<>>, recs |-> {}]

\* The directory buffer current number 0 is the root of the context, number
\* n the n-th buffer the call allocates.
\* how many directory buffers the events allocate
dirs_allocated(mem) ==
    Cardinality({i \in 1..Len(mem) : mem[i].op = "alloc" /\ mem[i].block[1] = "current"})

\* mutant of free_current: the buffer freed without the test of first
free_current_always(mem, first, current) ==
    <<ev("free", "current", dirs_allocated(mem), current.size, "byte")>>

\* `if (!first) pmm_free(current, current_size)` after the events mem
free_current(mem, first, current) ==
    IF first THEN <<>>
    ELSE <<ev("free", "current", dirs_allocated(mem), current.size, "byte")>>

free_ret == ev("free", "ret", 0, 1, "iso9660_file_handle")
read_current(mem) == ev("read", "current", dirs_allocated(mem), 0, "byte")

\* the first loop of iso9660_open over a multi-extent file: [e, extent_count,
\* total_size] from the entry e on
RECURSIVE count_extents(_, _, _, _, _)
count_extents(d, e, buffer_end, extent_count, total_size) ==
    IF (entry_flags(d, e) \div ISO9660_FLAG_MULTI_EXTENT) % 2 = 0
    THEN [extent_count |-> extent_count, total_size |-> total_size]
    ELSE LET next == iso9660_next_entry(d, e, buffer_end)
         IN  IF next = NO_ENTRY
             THEN [extent_count |-> extent_count, total_size |-> total_size]
             ELSE IF extent_count + 1 >= ISO9660_MAX_EXTENT_COUNT
             THEN [extent_count |-> extent_count + 1,
                   total_size |-> total_size + entry_extent_size(d, next)]
             ELSE count_extents(d, next, buffer_end, extent_count + 1,
                                total_size + entry_extent_size(d, next))

\* an extent the second loop did not come to: zeroed memory of ext_mem_alloc
zero_extent == [LBA |-> 0, size |-> 0]

\* the second loop of iso9660_open: the extents from index i on
RECURSIVE fill_extents(_, _, _, _, _)
fill_extents(d, e, buffer_end, i, extent_count) ==
    IF ~(i < extent_count) THEN <<>>
    ELSE LET this == [LBA |-> entry_extent(d, e), size |-> entry_extent_size(d, e)]
         IN  IF i + 1 < extent_count
             THEN LET next == iso9660_next_entry(d, e, buffer_end)
                  IN  IF next = NO_ENTRY
                      THEN <<this>> \o [k \in 1..(extent_count - i - 1) |-> zero_extent]
                      ELSE <<this>> \o fill_extents(d, next, buffer_end, i + 1, extent_count)
             ELSE <<this>>

no_iso_handle == [extent_count |-> 0, extents |-> <<>>, total_size |-> 0, size |-> 0]

\* what iso9660_open hands back: "null", "panic", or "handle" with the
\* handle; dir, filename, at and seen describe the last iso9660_find it
\* made: the buffer, the name, the entry found and the entries read;
\* fallback says that the handle is that of a path ending after a directory;
\* mem are the memory events of the call
iso_opened(ret, handle, dir, filename, found) ==
    [ret |-> ret, handle |-> handle, dir |-> dir, filename |-> filename,
     at |-> found.at, seen |-> found.seen, fallback |-> FALSE, mem |-> <<>>]

with_mem(r, mem) == [r EXCEPT !.mem = mem]

not_searched == [at |-> NO_ENTRY, seen |-> <<>>]

\* the end of iso9660_open for the entry of a file: both loops and setup_handle
open_extents(d, filename, found, mem, first) ==
    bind(count_extents(d, found.at, d.size, 1, entry_extent_size(d, found.at)),
         LAMBDA c :
           with_mem(iso_opened("handle",
                               [extent_count |-> c.extent_count,
                                extents |-> fill_extents(d, found.at, d.size, 0,
                                                         c.extent_count),
                                total_size |-> c.total_size,
                                size |-> c.total_size],
                               d, filename, found),
                    mem \o <<read_current(mem),
                              ev("alloc", "extents", 0, c.extent_count, "iso9660_extent"),
                              read_current(mem)>>
                        \o free_current(mem, first, d)
                        \o <<ev("alloc", "handle", 0, 1, "file_handle")>>))

\* the end of iso9660_open for a path that ends after a directory
open_fallback(next_sector, next_size, searched, mem) ==
    [searched EXCEPT !.ret = "handle",
                 !.fallback = TRUE,
                 !.mem = mem \o <<ev("alloc", "extents", 0, 1, "iso9660_extent"),
                                   ev("alloc", "handle", 0, 1, "file_handle")>>,
                 !.handle = [extent_count |-> 1,
                             extents |-> <<[LBA |-> next_sector, size |-> next_size]>>,
                             total_size |-> next_size,
                             size |-> next_size]]

\* The loop of iso9660_open from position p of the path (counted from 1),
\* in the directory buffer current; searched is the search made for the
\* component before and mem the memory events so far
RECURSIVE iso_walk(_, _, _, _, _, _, _)
iso_walk(img, path, p, current, first, searched, mem) ==
    LET q == skip_slashes(path, p)
        e == component_end(path, q)
        filename == codes(SubSeq(path, q, e - 1))
    IN  IF q > Len(path)
        THEN IF first THEN [searched EXCEPT !.ret = "null", !.mem = Append(mem, free_ret)]
             ELSE open_fallback(entry_extent(searched.dir, searched.at),
                                entry_extent_size(searched.dir, searched.at), searched,
                                mem \o free_current(mem, first, current))
        ELSE IF Len(filename) > ROCK_RIDGE_MAX_FILENAME - 1
        THEN [searched EXCEPT !.ret = "panic", !.mem = mem]
        ELSE bind(iso9660_find(current, filename, img.case_insensitive_fopen),
                  LAMBDA f :
                    IF f.panic
                    THEN with_mem(iso_opened("panic", no_iso_handle, current, filename, f),
                                  Append(mem, read_current(mem)))
                    ELSE IF f.at = NO_ENTRY
                    THEN with_mem(iso_opened("null", no_iso_handle, current, filename, f),
                                  Append(mem, read_current(mem))
                                      \o free_current(mem, first, current)
                                      \o <<free_ret>>)
                    ELSE IF e > Len(path)
                    THEN open_extents(current, filename, f,
                                      Append(mem, read_current(mem)), first)
                    ELSE bind([sector |-> entry_extent(current, f.at),
                               size |-> entry_extent_size(current, f.at),
                               mem |-> Append(mem, read_current(mem))
                                           \o free_current(mem, first, current)],
                              LAMBDA next :
                                IF next.size = 0 \/ next.size > ISO9660_MAX_DIR_SIZE
                                THEN with_mem(iso_opened("null", no_iso_handle, current,
                                                         filename, f),
                                              Append(next.mem, free_ret))
                                ELSE IF iso_volume_read(img, next.sector * ISO9660_SECTOR_SIZE,
                                                        next.size).ret # "true"
                                THEN with_mem(iso_opened("null", no_iso_handle, current,
                                                         filename, f),
                                              next.mem
                                                \o <<ev("alloc", "current",
                                                         dirs_allocated(mem) + 1,
                                                         next.size, "byte"),
                                                      ev("free", "current",
                                                         dirs_allocated(mem) + 1,
                                                         next.size, "byte"),
                                                      free_ret>>)
                                ELSE iso_walk(img, path, e + 1,
                                              dir_buffer(img, next.sector, next.size), FALSE,
                                              iso_opened("null", no_iso_handle, current,
                                                         filename, f),
                                              Append(next.mem,
                                                     ev("alloc", "current",
                                                        dirs_allocated(mem) + 1,
                                                        next.size, "byte")))))

ISO9660_FIRST_VOLUME_DESCRIPTOR == 16
ISO9660_MAX_VOLUME_DESCRIPTORS == 256
ISO9660_VDT_PRIMARY == 1
ISO9660_VDT_TERMINATOR == 255

\* the type byte of the volume descriptor that the image holds at an LBA:
\* img.descs are the types from LBA 16 on, img.far_pvd is the LBA of a
\* Primary Volume Descriptor after them (0: none) and every other sector
\* holds zeroes
descriptor_type(img, lba) ==
    IF lba - ISO9660_FIRST_VOLUME_DESCRIPTOR < Len(img.descs)
    THEN img.descs[lba - ISO9660_FIRST_VOLUME_DESCRIPTOR + 1]
    ELSE IF lba = img.far_pvd THEN ISO9660_VDT_PRIMARY
    ELSE 0

\* mutant of max_lba: one descriptor more
max_lba_one_more == ISO9660_FIRST_VOLUME_DESCRIPTOR + ISO9660_MAX_VOLUME_DESCRIPTORS + 1

max_lba == ISO9660_FIRST_VOLUME_DESCRIPTOR + ISO9660_MAX_VOLUME_DESCRIPTORS

\* One iteration of the loop of iso9660_find_PVD: the read failed ("read"),
\* the descriptor is the Primary Volume Descriptor ("no": no panic) or the
\* Terminator ("terminator"), or the loop goes on ("go")
find_PVD_step(img, lba) ==
    IF iso_volume_read(img, lba * ISO9660_SECTOR_SIZE, ISO9660_SECTOR_SIZE).ret # "true"
    THEN "read"
    ELSE IF descriptor_type(img, lba) = ISO9660_VDT_PRIMARY THEN "no"
    ELSE IF descriptor_type(img, lba) = ISO9660_VDT_TERMINATOR THEN "terminator"
    ELSE "go"

\* The iterations of the loop for the LBAs from..(to - 1), in order: [panic,
\* scanned], scanned being the LBAs of the descriptors it read or tried to
\* read.  The range is run in two halves to keep the evaluation shallow.
RECURSIVE find_PVD_loop(_, _, _)
find_PVD_loop(img, from, to) ==
    IF to - from = 1 THEN [panic |-> find_PVD_step(img, from), scanned |-> <<from>>]
    ELSE bind(find_PVD_loop(img, from, from + (to - from) \div 2),
              LAMBDA h :
                IF h.panic # "go" THEN h
                ELSE bind(find_PVD_loop(img, from + (to - from) \div 2, to),
                          LAMBDA k : [panic |-> k.panic, scanned |-> h.scanned \o k.scanned]))

\* iso9660_find_PVD(desc, vol): the loop while lba < max_lba, then the panic
\* for the limit
iso9660_find_PVD(img) ==
    bind(find_PVD_loop(img, ISO9660_FIRST_VOLUME_DESCRIPTOR, max_lba),
         LAMBDA r : IF r.panic = "go" THEN [r EXCEPT !.panic = "limit"] ELSE r)

\* iso9660_cache_root(vol, &root, &root_size): [panic, scanned, root,
\* root_size, mem]; img.root_lba and img.root_size are the extent of the root
\* record of the Primary Volume Descriptor
iso9660_cache_root(vol, img) ==
    bind(iso9660_find_PVD(img),
         LAMBDA pv :
           IF pv.panic # "no"
           THEN [panic |-> pv.panic, scanned |-> pv.scanned, root |-> no_buffer,
                 root_size |-> 0, mem |-> <<>>]
           ELSE IF img.root_size = 0 \/ img.root_size > ISO9660_MAX_DIR_SIZE
           THEN [panic |-> "root size", scanned |-> pv.scanned, root |-> no_buffer,
                 root_size |-> img.root_size, mem |-> <<>>]
           ELSE [panic |-> IF iso_volume_read(img, img.root_lba * ISO9660_SECTOR_SIZE,
                                              img.root_size).ret # "true"
                           THEN "root read" ELSE "no",
                 scanned |-> pv.scanned,
                 root |-> dir_buffer(img, img.root_lba, img.root_size),
                 root_size |-> img.root_size,
                 mem |-> <<ev("alloc", "root", vol, img.root_size, "byte")>>])

\* mutant of cached: only the head of the list is compared
cached_at_head(list, vol) == { i \in 1..Len(list) : list[i].vol = vol /\ i = 1 }

\* where the list holds the context of a volume
cached(list, vol) == { i \in 1..Len(list) : list[i].vol = vol }

no_context == [vol |-> 0, root |-> no_buffer, root_size |-> 0]

\* iso9660_get_context(vol): [panic, context, list, scanned, mem]; the
\* list is that of the static variable contexts, the head first
iso9660_get_context(list, vol, img) ==
    IF cached(list, vol) # {}
    THEN [panic |-> "no",
          context |-> list[CHOOSE i \in cached(list, vol) :
                                  \A j \in cached(list, vol) : i <= j],
          contexts |-> list, scanned |-> <<>>, mem |-> <<>>]
    ELSE bind(iso9660_cache_root(vol, img),
              LAMBDA c :
                bind([vol |-> vol, root |-> c.root, root_size |-> c.root_size],
                     LAMBDA context :
                       [panic |-> c.panic,
                        context |-> context,
                        contexts |-> IF c.panic = "no" THEN <<context>> \o list
                                     ELSE list,
                        scanned |-> c.scanned,
                        mem |-> <<ev("alloc", "node", vol, 1, "iso9660_contexts_node")>>
                                \o c.mem]))

\* iso9660_open(vol, path) with the list of contexts as it is at the call:
\* what iso9660_open hands back, with the list after the call (contexts),
\* the context the call works with (ret->context), the descriptors scanned
\* and why it panicked
iso9660_open_vol(list, vol, img, path) ==
    LET untouched == [contexts |-> list, scanned |-> <<>>, panic |-> "no",
                      context |-> no_context]
        nothing == iso_opened("null", no_iso_handle, no_buffer, <<>>, not_searched)
        ret == <<ev("alloc", "ret", 0, 1, "iso9660_file_handle")>>
    IN  IF iso_volume_read(img, ISO9660_FIRST_VOLUME_DESCRIPTOR * ISO9660_SECTOR_SIZE + 1,
                           5).ret # "true"
        THEN nothing @@ untouched
        ELSE IF img.identifier # "CD001" THEN nothing @@ untouched
        ELSE bind(iso9660_get_context(list, vol, img),
                  LAMBDA g :
                    IF g.panic # "no"
                    THEN [nothing EXCEPT !.ret = "panic", !.mem = ret \o g.mem]
                         @@ [contexts |-> g.contexts, scanned |-> g.scanned,
                             panic |-> g.panic, context |-> g.context]
                    ELSE bind(iso_walk(img, path, 1, g.context.root, TRUE, nothing,
                                       ret \o g.mem),
                              LAMBDA w :
                                w @@ [contexts |-> g.contexts, scanned |-> g.scanned,
                                      context |-> g.context,
                                      panic |-> IF w.ret = "panic" THEN "walk" ELSE "no"]))

\* iso9660_open(vol, path) on a volume with a Primary Volume Descriptor,
\* whose root directory the context holds
iso9660_open(img, path) ==
    iso9660_open_vol(<<[vol |-> 1,
                        root |-> dir_buffer(img, img.root_lba, img.root_size),
                        root_size |-> img.root_size]>>,
                     1, img, path)

\* mutant of offset_in_extent: every extent read from its start
offset_at_extent_start(loc, extent_start) == 0

\* where in an extent a read at loc starts
offset_in_extent(loc, extent_start) ==
    IF loc > extent_start THEN loc - extent_start ELSE 0

\* the loop of iso9660_read from extent i (counted from 0): [ret, buf]
RECURSIVE read_extents(_, _, _, _, _, _, _)
read_extents(img, f, i, extent_start, loc, count, buf) ==
    IF ~(i < f.extent_count /\ count > 0) THEN [ret |-> "done", buf |-> buf]
    ELSE
      LET extent_size == f.extents[i + 1].size
          extent_end == extent_start + extent_size
          bytes_available == extent_size - offset_in_extent(loc, extent_start)
          to_read == IF count < bytes_available THEN count ELSE bytes_available
          disk_offset == f.extents[i + 1].LBA * ISO9660_SECTOR_SIZE
                         + offset_in_extent(loc, extent_start)
      IN  IF loc < extent_end
          THEN bind(iso_volume_read(img, disk_offset, to_read),
                    LAMBDA r :
                      IF r.ret # "true" THEN [ret |-> "panic", buf |-> buf]
                      ELSE read_extents(img, f, i + 1, extent_end, loc + to_read,
                                        count - to_read, join(buf, r.buf)))
          ELSE read_extents(img, f, i + 1, extent_end, loc, count, buf)

\* iso9660_read(file, buf, loc, count): [ret, buf]
iso9660_read(img, f, loc, count) == read_extents(img, f, 0, 0, loc, count, <<>>)

-----------------------------------------------------------------------------
(* ISO9660 images and calls *)

le4(n) == <<n % 256, (n \div 256) % 256, (n \div 65536) % 256, n \div 16777216>>
be4(n) == <<n \div 16777216, (n \div 65536) % 256, (n \div 256) % 256, n % 256>>
zeroes(n) == [i \in 1..n |-> 0]

\* an entry of the System Use Area: signature, length, version, data
sua_entry(sig, version, data) ==
    [sig |-> sig, len |-> 4 + Len(data), version |-> version, data |-> data]

\* a Rock Ridge NM entry: a flags byte, then the name
nm_entry(name) == sua_entry(<<"N", "M">>, 1, <<0>> \o name)

RECURSIVE sua_bytes(_)
sua_bytes(sua) ==
    IF sua = <<>> THEN <<>>
    ELSE <<ascii(sua[1].sig[1]), ascii(sua[1].sig[2]), sua[1].len, sua[1].version>>
         \o sua[1].data \o sua_bytes(Tail(sua))

\* A directory record at an offset: the fixed header, the name, the padding
\* byte after a name of even length, the System Use Area and fill zero bytes.
\* The fields are kept next to the bytes.
record(at, name, flags, lba, size, sua, fill) ==
    LET pad == IF Len(name) % 2 = 0 THEN <<0>> ELSE <<>>
        area == sua_bytes(sua) \o zeroes(fill)
        length == ISO_ENTRY_SIZE + Len(name) + Len(pad) + Len(area)
    IN  [at |-> at, name |-> name, flags |-> flags, lba |-> lba, size |-> size,
         sua |-> sua, area_len |-> Len(area),
         bytes |-> <<length, 0>> \o le4(lba) \o be4(lba) \o le4(size) \o be4(size)
                   \o zeroes(7) \o <<flags, 0, 0>> \o <<1, 0, 0, 1>> \o <<Len(name)>>
                   \o name \o pad \o area]

\* a record whose length byte was overwritten
with_length(r, n) == [r EXCEPT !.bytes[1] = n]

file_record(at, name, flags, lba, size) == record(at, codes(name), flags, lba, size, <<>>, 0)

\* the contents of the images: the root directory, its size as the Primary
\* Volume Descriptor gives it, and the directories below it by LBA
BIG == <<"B", "I", "G", ";", "1">>
FILE == <<"F", "I", "L", "E", ";", "1">>
README == <<"R", "E", "A", "D", "M", "E", ".", "T", "X", "T", ";", "1">>
readme == <<"r", "e", "a", "d", "m", "e", ".", "t", "x", "t">>

\* a multi-extent file of three extents, the second one empty, then a file
\* and a directory
ExtentsRoot ==
    { record(0, <<0>>, 2, 18, 2048, <<>>, 0),
      file_record(34, BIG, 128, 20, 3000),
      file_record(72, BIG, 128, 22, 0),
      file_record(110, BIG, 0, 23, 2148),
      file_record(148, <<"A", "F", "T", "E", "R", ";", "1">>, 0, 25, 100),
      file_record(188, <<"D">>, 2, 19, 2048) }

\* the directory D: a file SUB in two extents, the last record of the buffer
\* still carrying the flag
SubDir ==
    { file_record(0, <<"S", "U", "B", ";", "1">>, 128, 26, 2048),
      file_record(38, <<"S", "U", "B", ";", "1">>, 128, 27, 5) }

\* a multi-extent file whose second record starts the next sector
AcrossRoot ==
    { file_record(0, BIG, 128, 20, 3000),
      file_record(2048, BIG, 0, 22, 10) }

\* a multi-extent file whose second record starts 8 bytes before the end of
\* the buffer
StraddleRoot ==
    { record(250 * k, codes(<<"P", "A", "D", ";", "1">>), 0, 25, 100, <<>>, 212) :
        k \in 0..7 }
    \cup { record(2000, codes(BIG), 128, 20, 3000, <<>>, 2),
           file_record(2040, BIG, 0, 22, 10) }

\* padding after the first record, the file at the start of the next sector
PaddingRoot ==
    { file_record(0, <<"A", ";", "1">>, 0, 25, 100),
      file_record(2048, FILE, 0, 20, 3000) }

\* a record shorter than the fixed header, and one longer than what is left
\* of the buffer, each before the file
ShortRoot ==
    { with_length(file_record(0, <<"A", ";", "1">>, 0, 25, 100), 10),
      file_record(10, FILE, 0, 20, 3000) }
LongRoot ==
    { file_record(0, <<"A", ";", "1">>, 0, 25, 100),
      with_length(record(36, codes(<<"L", ";", "1">>), 0, 25, 100, <<>>, 164), 255),
      file_record(236, FILE, 0, 20, 3000) }

\* Rock Ridge names: an NM entry after a PX entry, an NM entry without a
\* name, an NM entry after an entry of version 2, an NM entry longer than the
\* area, and a record without a System Use Area
PX == sua_entry(<<"P", "X">>, 1, zeroes(4))
RockRoot ==
    { record(0, codes(README), 0, 20, 3000, <<PX, nm_entry(codes(readme))>>, 0),
      record(69, codes(<<"B", ".", ";", "1">>), 0, 22, 10, <<nm_entry(<<>>)>>, 0),
      record(112, codes(<<"C", ";", "1">>), 0, 23, 10,
             <<sua_entry(<<"P", "X">>, 2, zeroes(4)), nm_entry(codes(<<"x">>))>>, 0),
      record(162, codes(<<"E", ";", "1">>), 0, 23, 10,
             <<[nm_entry(codes(<<"y">>)) EXCEPT !.len = 9]>>, 0),
      record(204, codes(<<"g", ";", "1">>), 0, 25, 100, <<nm_entry(codes(<<"H">>))>>, 0),
      file_record(246, <<"M", "i", "x", ".", "T", ";", "1">>, 0, 25, 100) }

\* the size of the images in sectors
IsoSects == 30

iso_image(root, root_size, xfer, ci, heap) ==
    [vol |-> [new_volume(<<0, IsoSects, ISO9660_SECTOR_SIZE>>, xfer, FALSE)
                 EXCEPT !.is_optical = TRUE],
     dev_sects |-> IsoSects,
     identifier |-> "CD001",
     root_lba |-> 18, root_size |-> root_size,
     dirs |-> (18 :> root) @@ (19 :> SubDir),
     case_insensitive_fopen |-> ci,
     heap |-> heap]

\* what follows a directory buffer in memory
IsoHeaps == { <<>>, [i \in 1..16 |-> 1] }

IsoRoots ==
    { <<ExtentsRoot, 2048>>, <<AcrossRoot, 4096>>, <<StraddleRoot, 2048>>,
      <<PaddingRoot, 4096>>, <<PaddingRoot, 3000>>, <<ShortRoot, 2048>>,
      <<LongRoot, 280>>, <<RockRoot, 2048>> }

IsoImages ==
    { iso_image(r[1], r[2], xfer, ci, heap) :
        r \in IsoRoots, xfer \in {1, MaxXfer}, ci \in BOOLEAN, heap \in IsoHeaps }
    \cup { [iso_image(ExtentsRoot, 2048, 1, FALSE, <<>>) EXCEPT !.identifier = "NSR02"] }

IsoPaths ==
    { <<>>, <<"/">>,
      <<"B", "I", "G">>, <<"/", "b", "i", "g">>, <<"A", "F", "T", "E", "R">>,
      <<"D", "/", "S", "U", "B">>, <<"D", "/">>, <<"D", "/", "/", "S", "U", "B", "/">>,
      <<"F", "I", "L", "E">>, <<"f", "i", "l", "e">>,
      readme, <<"R", "E", "A", "D", "M", "E", ".", "T", "X", "T">>,
      <<"b">>, <<"c">>, <<"x">>, <<"X">>, <<"e">>, <<"y">>, <<"G">>, <<"h">>, <<"H">>,
      <<"m", "i", "x", ".", "t">> }

IsoLocs == {0, 1, 2999, 3000, 3001, 16000}
IsoCounts == {0, 1, 2, 2148, 5148}

NoIsoOpen ==
    [called |-> FALSE, path |-> <<>>, ret |-> "none", handle |-> no_iso_handle,
     dir |-> no_buffer, filename |-> <<>>, at |-> NO_ENTRY, seen |-> <<>>,
     fallback |-> FALSE]
NoIsoRead == [called |-> FALSE, loc |-> 0, count |-> 0, ret |-> "none", buf |-> <<>>]

\* iso9660_open of any of the paths, when no file is open
IsoOpen ==
    /\ ~iopen.called
    /\ \E path \in IsoPaths :
        iopen' = bind(iso9660_open(iso, path),
                      LAMBDA r : [called |-> TRUE, path |-> path, ret |-> r.ret,
                                  handle |-> r.handle, dir |-> r.dir,
                                  filename |-> r.filename, at |-> r.at,
                                  seen |-> r.seen, fallback |-> r.fallback])
    /\ iread' = NoIsoRead
    /\ UNCHANGED iso
    /\ VolumeIdle
    /\ PartIdle
    /\ FatIdle
    /\ PathIdle
    /\ IndexIdle
    /\ ContextIdle
    /\ FormatIdle

\* iso9660_read on the open handle
IsoRead ==
    /\ iopen.called
    /\ iopen.ret = "handle"
    /\ \E loc \in IsoLocs, count \in IsoCounts :
        iread' = bind(iso9660_read(iso, iopen.handle, loc, count),
                      LAMBDA r : [called |-> TRUE, loc |-> loc, count |-> count,
                                  ret |-> r.ret, buf |-> r.buf])
    /\ UNCHANGED <<iso, iopen>>
    /\ VolumeIdle
    /\ PartIdle
    /\ FatIdle
    /\ PathIdle
    /\ IndexIdle
    /\ ContextIdle
    /\ FormatIdle

\* iso9660_close of the open handle, or the caller dropping the null result
IsoClose ==
    /\ iopen.called
    /\ iopen' = NoIsoOpen
    /\ iread' = NoIsoRead
    /\ UNCHANGED iso
    /\ VolumeIdle
    /\ PartIdle
    /\ FatIdle
    /\ PathIdle
    /\ IndexIdle
    /\ ContextIdle
    /\ FormatIdle

-----------------------------------------------------------------------------
(* Properties of the ISO9660 driver *)

RECURSIVE extents_size(_)
extents_size(extents) ==
    IF extents = <<>> THEN 0 ELSE extents[1].size + extents_size(Tail(extents))

\* where on the volume byte k of the concatenation of the extents is stored:
\* extent i holds its bytes from LBA_i * 2048 on
RECURSIVE extent_offset(_, _)
extent_offset(extents, k) ==
    IF k < extents[1].size THEN extents[1].LBA * ISO9660_SECTOR_SIZE + k
    ELSE extent_offset(Tail(extents), k - extents[1].size)

iso_read_range == iread.loc .. (iread.loc + iread.count - 1)

\* C13: for a handle with the extents e1..eN, iso9660_read(buf, loc, count)
\* with loc + count within the sum of the sizes delivers exactly the bytes
\* [loc, loc + count) of the concatenation of the extents in list order,
\* extent i taken from LBA_i * 2048 of the volume, whenever those bytes lie
\* on the volume.
C13_MultiExtentRead ==
    (/\ iread.called
     /\ iread.loc + iread.count <= extents_size(iopen.handle.extents)
     /\ \A k \in iso_read_range :
            extent_offset(iopen.handle.extents, k)
                < iso.vol.sect_count * iso.vol.sector_size)
    => /\ iread.ret = "done"
       /\ buf_len(iread.buf) = iread.count
       /\ \A k \in iso_read_range :
              byte_of(iread.buf, k - iread.loc)
                  = volume_byte(iso.vol, extent_offset(iopen.handle.extents, k))

\* a read that starts at the last byte of the first of three extents, passes
\* over the empty second one and ends in the third
C13_Witness ==
    /\ iread.called
    /\ iread.ret = "done"
    /\ iopen.handle.extent_count = 3
    /\ iopen.handle.extents[1].size = 3000
    /\ iopen.handle.extents[2].size = 0
    /\ iread.loc = 2999
    /\ iread.count = 2

\* the entries of a directory buffer: the records that lie in it with their
\* whole length, which is at least that of the fixed header
whole_entries(d) ==
    { r \in d.recs : /\ r.bytes[1] = Len(r.bytes)
                     /\ Len(r.bytes) >= ISO_ENTRY_SIZE
                     /\ r.at + Len(r.bytes) <= d.size }

\* the entry r and the entries of the buffer after it, up to and including
\* the first one without the multi-extent flag
RECURSIVE collected(_, _)
collected(d, r) ==
    LET later == { n \in whole_entries(d) : n.at > r.at }
    IN  IF (r.flags \div ISO9660_FLAG_MULTI_EXTENT) % 2 = 1 /\ later # {}
        THEN <<r>> \o collected(d, CHOOSE n \in later : \A m \in later : n.at <= m.at)
        ELSE <<r>>

\* the entry that the last search of iso9660_open found
matched == CHOOSE r \in iopen.dir.recs : r.at = iopen.at

\* C14: the handle that iso9660_open returns for a file holds the matched
\* entry followed by the entries of the same directory buffer after it, up to
\* and including the first one without the flag 0x80: extent_count is their
\* number, between 1 and 65536, extents[i] is the (LBA, size) of the i-th of
\* them, and total_size and the size of the handle are the sum of the sizes.
C14_ExtentCollection ==
    (iopen.called /\ iopen.ret = "handle" /\ ~iopen.fallback) =>
        LET entries == collected(iopen.dir, matched)
            f == iopen.handle
        IN  /\ f.extent_count = Len(entries)
            /\ 1 <= f.extent_count
            /\ f.extent_count <= ISO9660_MAX_EXTENT_COUNT
            /\ Len(f.extents) = f.extent_count
            /\ \A i \in 1..Len(entries) :
                  f.extents[i] = [LBA |-> entries[i].lba, size |-> entries[i].size]
            /\ f.total_size = extents_size(f.extents)
            /\ f.size = f.total_size

\* the smallest multiple of 2048 greater than o
next_boundary(o) == (o \div ISO9660_SECTOR_SIZE + 1) * ISO9660_SECTOR_SIZE

\* the last search read a record of length 0 at the i-th offset it came to
padding_at(i) == entry_length(iopen.dir, iopen.seen[i]) = 0

\* ... a record shorter than the fixed header or longer than the rest of
\* the buffer
corrupt_at(i) ==
    /\ ~padding_at(i)
    /\ \/ entry_length(iopen.dir, iopen.seen[i]) < ISO_ENTRY_SIZE
       \/ entry_length(iopen.dir, iopen.seen[i]) > iopen.dir.size - iopen.seen[i]

\* C15: in a scan of a directory buffer of any size, a record of length 0 at
\* offset o makes the scan continue at the smallest multiple of 2048 greater
\* than o (and ends it when the buffer ends before), so that an entry at
\* offset 2048 behind padding in the first sector is found; a record shorter
\* than the fixed header or longer than the rest of the buffer ends the scan
\* with not found; the scan only moves forward within the buffer, so it ends.
C15_PaddingSkip ==
    iopen.called =>
        /\ \A i \in 1..Len(iopen.seen) :
              padding_at(i) =>
                  IF next_boundary(iopen.seen[i]) < iopen.dir.size
                  THEN /\ i < Len(iopen.seen)
                       /\ iopen.seen[i + 1] = next_boundary(iopen.seen[i])
                  ELSE i = Len(iopen.seen) /\ iopen.at = NO_ENTRY
        /\ (/\ \E i \in 1..Len(iopen.seen) :
                    padding_at(i) /\ iopen.seen[i] < ISO9660_SECTOR_SIZE
             /\ \E r \in whole_entries(iopen.dir) :
                    /\ r.at = ISO9660_SECTOR_SIZE
                    /\ name_matches(iopen.dir, r.at, iopen.filename,
                                    iso.case_insensitive_fopen).match)
            => iopen.at = ISO9660_SECTOR_SIZE
        /\ \A i \in 1..Len(iopen.seen) :
              corrupt_at(i) => i = Len(iopen.seen) /\ iopen.at = NO_ENTRY
        /\ \A i \in 1..Len(iopen.seen) :
              /\ iopen.seen[i] < iopen.dir.size
              /\ i > 1 => iopen.seen[i - 1] < iopen.seen[i]

\* what is left of the System Use Area of the record r at its i-th entry, the
\* entries following each other at their lengths
RECURSIVE sua_left(_, _)
sua_left(r, i) == IF i = 1 THEN r.area_len ELSE sua_left(r, i - 1) - r.sua[i - 1].len

is_nm(e) == e.sig = <<"N", "M">>

\* the NM entries of r that the claim speaks of: length >= 5 and within what
\* is left of the area
claimed_nm(r) ==
    { i \in 1..Len(r.sua) :
        is_nm(r.sua[i]) /\ r.sua[i].len >= 5 /\ r.sua[i].len <= sua_left(r, i) }

\* the NM entry of r that gives the name: it has a name (length > 5) and lies
\* within what is left of the area, it and every entry before it have
\* version 1, and the entries before it are not NM entries and have a
\* length other than 0 that lies within what is left
naming_nm(r) ==
    { i \in 1..Len(r.sua) :
        /\ is_nm(r.sua[i])
        /\ r.sua[i].len > 5
        /\ \A j \in 1..i : /\ r.sua[j].version = 1
                            /\ sua_left(r, j) >= 4
                            /\ r.sua[j].len <= sua_left(r, j)
        /\ \A j \in 1..(i - 1) : ~is_nm(r.sua[j]) /\ r.sua[j].len # 0 }

\* the name that an NM entry carries behind its flags byte
nm_name(e) == Tail(e.data)

\* the ISO name without its version suffix: what stands before the first
\* ";" or ".;"
stripped(name) ==
    LET cut == { j \in 1..Len(name) :
                   \/ name[j] = ascii(";")
                   \/ name[j] = ascii(".") /\ j < Len(name) /\ name[j + 1] = ascii(";") }
    IN  IF cut = {} THEN name
        ELSE SubSeq(name, 1, (CHOOSE j \in cut : \A k \in cut : j <= k) - 1)

fold(c) == IF c >= ascii("A") /\ c <= ascii("Z") THEN c + 32 ELSE c
same_name(a, b) == a = b
same_name_caseless(a, b) ==
    Len(a) = Len(b) /\ \A i \in 1..Len(a) : fold(a[i]) = fold(b[i])

\* does the record r answer to filename, the NM entries nm of it counting
names(r, nm, filename) ==
    IF nm # {}
    THEN LET e == r.sua[CHOOSE i \in nm : \A k \in nm : i <= k]
         IN  IF iso.case_insensitive_fopen THEN same_name_caseless(filename, nm_name(e))
             ELSE same_name(filename, nm_name(e))
    ELSE same_name_caseless(filename, stripped(r.name))

\* the entries that the last search compared with the name it looked for
compared ==
    { r \in whole_entries(iopen.dir) : \E i \in 1..Len(iopen.seen) : iopen.seen[i] = r.at }

\* C16 (as claimed): an entry that carries an NM entry of length >= 5 within
\* the remaining System Use Area is compared by its NM name only, exactly
\* unless case_insensitive_fopen is set; any other entry by its ISO name
\* without the version suffix, without regard to case.
C16_RockRidgePrecedence ==
    iopen.called =>
        \A r \in compared : (iopen.at = r.at) <=> names(r, claimed_nm(r), iopen.filename)

\* C16 (amended): the NM name counts when the NM entry has a name (length
\* > 5) and the scan of the System Use Area comes to it: it and every entry
\* before it have version 1 and lie within the area, and the entries before
\* it have a length other than 0.  Such an entry is compared by its NM name
\* only, exactly unless case_insensitive_fopen is set; any other entry by
\* its ISO name without the version suffix, without regard to case.
C16_NamedRockRidgePrecedence ==
    iopen.called =>
        \A r \in compared : (iopen.at = r.at) <=> names(r, naming_nm(r), iopen.filename)

\* the lookup of "readme.txt" in case-sensitive mode finds the entry with
\* the ISO name README.TXT;1 and the NM name readme.txt
C16_Witness ==
    /\ iopen.called
    /\ ~iso.case_insensitive_fopen
    /\ iopen.path = readme
    /\ iopen.ret = "handle"
    /\ matched.name = codes(README)
    /\ naming_nm(matched) = {2}
    /\ nm_name(matched.sua[2]) = codes(readme)

-----------------------------------------------------------------------------
(* Part 5: get_absolute_path

   Paths are sequences of characters.  The output buffer is the memory
   from path_ptr on: cells 0 .. size - 1 are the buffer, the cells from size
   on are what lies behind it.  Before the call the cells hold whatever the
   caller left there.  A run is [out, path_ptr, path, last]: the memory, the
   index path_ptr has come to, the position in path (counted from 1) and
   the highest index written so far (-1: none). *)

MaxSize == 6        \* largest size of the output buffer
MaxPath == 5        \* longest input path

\* *path at position i; the string ends with NUL
char_at(path, i) == IF i <= Len(path) THEN path[i] ELSE NUL

\* !strncmp(path, s, n) for an s of n - 1 characters and a NUL: path is s
is_exactly(path, i, s) ==
    \A k \in 0..Len(s) : char_at(path, i + k) = char_at(s, k + 1)

\* !strncmp(path, s, n) for an s of n characters: path starts with s
starts_with(path, i, s) ==
    \A k \in 0..(Len(s) - 1) : char_at(path, i + k) = s[k + 1]

put(run, index, c) ==
    [run EXCEPT !.out[index + 1] = c, !.last = Max(run.last, index)]

\* memcpy(path_ptr, pwd, pwd_len + 1)
RECURSIVE copy_pwd(_, _, _)
copy_pwd(run, pwd, k) ==
    IF k > Len(pwd) THEN put(run, k - 1, NUL)
    ELSE copy_pwd(put(run, k - 1, pwd[k]), pwd, k + 1)

\* while (*path_ptr != '/') path_ptr--; if (path_ptr == orig_ptr) path_ptr++;
RECURSIVE back_to_slash(_, _)
back_to_slash(out, path_ptr) ==
    IF out[path_ptr + 1] # "/" THEN back_to_slash(out, path_ptr - 1)
    ELSE IF path_ptr = 0 THEN 1
    ELSE path_ptr

returned(ret, run) == [ret |-> ret, out |-> run.out, last |-> run.last]

\* mutant of term: the character before path_ptr dropped without the test
\* that it is a slash
term_without_slash_test(run) ==
    LET path_ptr == IF run.path_ptr - 1 # 0 THEN run.path_ptr - 1 ELSE run.path_ptr
    IN  returned(TRUE, put(run, path_ptr, NUL))

\* the label term
term(run) ==
    LET path_ptr == IF run.out[run.path_ptr] = "/" /\ run.path_ptr - 1 # 0
                    THEN run.path_ptr - 1 ELSE run.path_ptr
    IN  returned(TRUE, put(run, path_ptr, NUL))

\* the loop of get_absolute_path, entered at the switch or at first_run
RECURSIVE path_loop(_, _, _, _)
path_loop(run, path, size, first_run) ==
    LET end_ptr == size - 1
        c == char_at(path, run.path)
    IN  IF ~first_run
        THEN IF c = "/" THEN path_loop([run EXCEPT !.path = @ + 1], path, size, TRUE)
             ELSE IF c = NUL THEN term(run)
             ELSE IF run.path_ptr >= end_ptr THEN returned(FALSE, run)
             ELSE path_loop([put(run, run.path_ptr, c) EXCEPT !.path = @ + 1,
                                                                !.path_ptr = @ + 1],
                            path, size, FALSE)
        ELSE IF c = "/" THEN path_loop(run, path, size, FALSE)
        ELSE IF is_exactly(path, run.path, <<".">>) \/ is_exactly(path, run.path, <<".", "/">>)
        THEN term(run)
        ELSE IF \/ is_exactly(path, run.path, <<".", ".">>)
                \/ is_exactly(path, run.path, <<".", ".", "/">>)
        THEN term([run EXCEPT !.path_ptr = back_to_slash(run.out, run.path_ptr)])
        ELSE IF starts_with(path, run.path, <<".", ".", "/">>)
        THEN path_loop([put(run, back_to_slash(run.out, run.path_ptr), NUL)
                           EXCEPT !.path_ptr = back_to_slash(run.out, run.path_ptr),
                                  !.path = @ + 2],
                       path, size, FALSE)
        ELSE IF starts_with(path, run.path, <<".", "/">>)
        THEN path_loop([run EXCEPT !.path = @ + 1], path, size, FALSE)
        ELSE IF run.path_ptr - 1 # 0 /\ run.out[run.path_ptr] # "/"
        THEN IF run.path_ptr >= end_ptr THEN returned(FALSE, run)
             ELSE path_loop([put(run, run.path_ptr, "/") EXCEPT !.path_ptr = @ + 1],
                            path, size, FALSE)
        ELSE path_loop(run, path, size, FALSE)

\* get_absolute_path(path_ptr, path, pwd, size) on the memory out:
\* [ret, out, last]
get_absolute_path(out, path, pwd, size) ==
    LET run == [out |-> out, path_ptr |-> 0, path |-> 1, last |-> -1]
    IN  IF size = 0 THEN returned(FALSE, run)
        ELSE IF char_at(path, 1) = NUL
        THEN IF Len(pwd) >= size THEN returned(FALSE, run)
             ELSE returned(TRUE, copy_pwd(run, pwd, 1))
        ELSE IF char_at(path, 1) # "/"
        THEN IF Len(pwd) >= size THEN returned(FALSE, run)
             ELSE path_loop([copy_pwd(run, pwd, 1) EXCEPT !.path_ptr = Len(pwd)],
                            path, size, TRUE)
        ELSE path_loop([put(run, 0, "/") EXCEPT !.path_ptr = 1, !.path = 2],
                       path, size, TRUE)

\* the string that the memory holds from index 0 on
RECURSIVE string_at(_, _)
string_at(out, index) ==
    IF index >= Len(out) \/ out[index + 1] = NUL THEN <<>>
    ELSE <<out[index + 1]>> \o string_at(out, index + 1)

-----------------------------------------------------------------------------
(* get_absolute_path: the calls *)

\* the memory before the call: zeroed, or left over from earlier use
Memories == { [k \in 1..(MaxSize + 1) |-> c] : c \in {NUL, "/", "a"} }

\* working directories: canonical absolute paths
Pwds == { <<"/">>, <<"/", "a">>, <<"/", "b", "/", "a">> }

PathChars == {"/", ".", "a"}
Paths == UNION { [1..n -> PathChars] : n \in 0..MaxPath }

NoPathCall == [path |-> <<>>, pwd |-> <<"/">>, size |-> 0, out |-> [k \in 1..(MaxSize + 1) |-> NUL]]
NoPathResult == [called |-> FALSE, ret |-> FALSE, out |-> NoPathCall.out, last |-> -1,
                 again |-> FALSE, first |-> <<>>]

\* get_absolute_path on the arguments of gcall
GetAbsolutePath ==
    /\ ~gres.called
    /\ gres' = bind(get_absolute_path(gcall.out, gcall.path, gcall.pwd, gcall.size),
                    LAMBDA r : [called |-> TRUE, ret |-> r.ret, out |-> r.out,
                                last |-> r.last, again |-> FALSE, first |-> <<>>])
    /\ UNCHANGED gcall
    /\ VolumeIdle
    /\ PartIdle
    /\ FatIdle
    /\ IsoIdle
    /\ IndexIdle
    /\ ContextIdle
    /\ FormatIdle

\* get_absolute_path on the result of a call that returned true, with the
\* same pwd and size, into any memory
GetAbsolutePathAgain ==
    /\ gres.called
    /\ gres.ret
    /\ ~gres.again
    /\ \E out \in Memories :
        /\ gcall' = [gcall EXCEPT !.path = string_at(gres.out, 0), !.out = out]
        /\ gres' = bind(get_absolute_path(out, string_at(gres.out, 0), gcall.pwd, gcall.size),
                        LAMBDA r : [called |-> TRUE, ret |-> r.ret, out |-> r.out,
                                    last |-> r.last, again |-> TRUE,
                                    first |-> string_at(gres.out, 0)])
    /\ VolumeIdle
    /\ PartIdle
    /\ FatIdle
    /\ IsoIdle
    /\ IndexIdle
    /\ ContextIdle
    /\ FormatIdle

-----------------------------------------------------------------------------
(* Properties of get_absolute_path *)

\* the components of a path: what stands between its slashes
RECURSIVE components(_, _)
components(p, word) ==
    IF p = <<>> THEN IF word = <<>> THEN <<>> ELSE <<word>>
    ELSE IF p[1] = "/"
    THEN (IF word = <<>> THEN <<>> ELSE <<word>>) \o components(Tail(p), <<>>)
    ELSE components(Tail(p), Append(word, p[1]))

\* the directory reached from the directory stack by the components: "."
\* stays, ".." leaves the last component, or stays at the root
RECURSIVE resolved(_, _)
resolved(stack, comps) ==
    IF comps = <<>> THEN stack
    ELSE IF comps[1] = <<".">> THEN resolved(stack, Tail(comps))
    ELSE IF comps[1] = <<".", ".">>
    THEN resolved(IF stack = <<>> THEN stack ELSE SubSeq(stack, 1, Len(stack) - 1),
                  Tail(comps))
    ELSE resolved(Append(stack, comps[1]), Tail(comps))

RECURSIVE rendered(_)
rendered(stack) ==
    IF stack = <<>> THEN <<>> ELSE <<"/">> \o stack[1] \o rendered(Tail(stack))

\* the canonical form of path in the working directory pwd
canonical(path, pwd) ==
    IF path = <<>> THEN pwd
    ELSE LET stack == resolved(IF path[1] = "/" THEN <<>> ELSE components(pwd, <<>>),
                               components(path, <<>>))
         IN  IF stack = <<>> THEN <<"/">> ELSE rendered(stack)

result == string_at(gres.out, 0)

\* C17: when get_absolute_path(out, p, pwd, size) returns true with the
\* result r, get_absolute_path on r with the same pwd and size returns true
\* with the result r.
C17_Idempotence ==
    gres.again => gres.ret /\ result = gres.first

\* a second call on the result of a path with "..", "." and "//"
C17_Witness ==
    /\ gres.again
    /\ gres.ret
    /\ result = <<"/", "a">>
    /\ gres.first = <<"/", "a">>
    /\ gcall.pwd = <<"/", "b", "/", "a">>

\* C18: get_absolute_path writes no cell of the output buffer behind index
\* size - 1, whatever the size, and returns false when the canonical result
\* with its NUL does not fit in size bytes.
C18_Bounds ==
    gres.called =>
        /\ gres.last <= gcall.size - 1
        /\ Len(canonical(gcall.path, gcall.pwd)) + 1 > gcall.size => ~gres.ret

\* C19: when get_absolute_path returns true the output begins with "/", has
\* no "//", no component "." or "..", and no "/" at its end unless it is
\* "/"; it is pwd for an empty path, and otherwise the directory reached
\* from the root (absolute path) or from pwd (relative path) by the
\* components of the path, each ".." leaving the component before it and
\* staying at the root.
C19_CanonicalForm ==
    (gres.called /\ gres.ret) =>
        /\ result # <<>> /\ result[1] = "/"
        /\ \A k \in 1..(Len(result) - 1) : ~(result[k] = "/" /\ result[k + 1] = "/")
        /\ \A k \in 1..Len(components(result, <<>>)) :
              components(result, <<>>)[k] \notin {<<".">>, <<".", ".">>}
        /\ result[Len(result)] = "/" => result = <<"/">>
        /\ result = canonical(gcall.path, gcall.pwd)

\* C29: what get_absolute_path returns, and the string it leaves when it
\* returns true, are those of the same call on any other contents of the
\* output buffer.
C29_InputsOnly ==
    (gres.called /\ ~gres.again) =>
        \A out \in Memories :
            bind(get_absolute_path(out, gcall.path, gcall.pwd, gcall.size),
                 LAMBDA r : /\ r.ret = gres.ret
                            /\ r.ret => string_at(r.out, 0) = result)

-----------------------------------------------------------------------------
(* Part 6: the volume index (volume_get_by_guid, volume_get_by_fslabel,
   volume_get_by_coord)

   volume_index is the sequence of the registered volumes.  A lookup returns
   a pointer to an element of it, which is given here by its position
   (counted from 1), NULL by 0.  GUIDs are sequences of 16 bytes and labels
   sequences of character codes. *)

GUID_SIZE == 16
NULL_VOLUME == 0

\* mutant of guid_equal: only the first half of the GUID compared
guid_equal_first_half(a, b) == \A k \in 1..(GUID_SIZE \div 2) : a[k] = b[k]

\* memcmp(a, b, 16) == 0
guid_equal(a, b) == \A k \in 1..GUID_SIZE : a[k] = b[k]

\* the loops of the lookups: the first position from i on whose volume
\* passes the test of the lookup (hits[i]), or NULL
RECURSIVE first_from(_, _)
first_from(hits, i) ==
    IF ~(i <= Len(hits)) THEN NULL_VOLUME
    ELSE IF hits[i] THEN i
    ELSE first_from(hits, i + 1)

volume_get_by_guid(index, guid) ==
    first_from([i \in 1..Len(index) |->
                   \/ index[i].guid_valid /\ guid_equal(index[i].guid, guid)
                   \/ index[i].part_guid_valid /\ guid_equal(index[i].part_guid, guid)],
               1)

volume_get_by_fslabel(index, fslabel) ==
    first_from([i \in 1..Len(index) |->
                   index[i].fslabel_valid /\ strcmp_eq(index[i].fslabel, fslabel)],
               1)

volume_get_by_coord(index, optical, drive, partition) ==
    first_from([i \in 1..Len(index) |->
                   /\ index[i].index = drive
                   /\ index[i].is_optical = optical
                   /\ index[i].partition = partition],
               1)

-----------------------------------------------------------------------------
(* The volume index: registered volumes and calls *)

MaxVolumes == 3     \* most volumes in the index

GuidA == [k \in 1..GUID_SIZE |-> 1]
\* as GuidA but for the last byte, and but for the first byte
GuidB == [GuidA EXCEPT ![GUID_SIZE] = 2]
GuidC == [GuidA EXCEPT ![1] = 2]
Guids == {GuidA, GuidB, GuidC}

Labels == { codes(<<"b", "o", "o", "t">>), codes(<<"B", "o", "o", "t">>),
            codes(<<"b", "o", "o">>) }

indexed(guid_valid, guid, part_guid_valid, part_guid, fslabel_valid, fslabel,
        drive, optical, partition) ==
    [guid_valid |-> guid_valid, guid |-> guid,
     part_guid_valid |-> part_guid_valid, part_guid |-> part_guid,
     fslabel_valid |-> fslabel_valid, fslabel |-> fslabel,
     index |-> drive, is_optical |-> optical, partition |-> partition]

\* volumes as disk enumeration and the partition parsers leave them: with a
\* filesystem UUID, a partition GUID, both or none, a field that is not
\* valid holding anything
Registered ==
    { indexed(TRUE, GuidA, FALSE, GuidB, TRUE, codes(<<"b", "o", "o", "t">>), 1, FALSE, 0),
      indexed(FALSE, GuidA, TRUE, GuidB, TRUE, codes(<<"B", "o", "o", "t">>), 1, FALSE, 1),
      indexed(TRUE, GuidC, TRUE, GuidA, FALSE, codes(<<"b", "o", "o", "t">>), 1, FALSE, 2),
      indexed(FALSE, GuidC, FALSE, GuidC, TRUE, codes(<<"b", "o", "o">>), 1, TRUE, 0),
      indexed(TRUE, GuidB, FALSE, GuidA, TRUE, codes(<<"b", "o", "o", "t">>), 2, FALSE, 1) }

NoLookup == [called |-> "none", arg |-> <<>>, ret |-> NULL_VOLUME, index |-> <<>>]

looked_up(called, arg, ret) ==
    [called |-> called, arg |-> arg, ret |-> ret, index |-> vindex]

VolumeGetByGuid ==
    /\ \E guid \in Guids :
        vlook' = looked_up("guid", guid, volume_get_by_guid(vindex, guid))
    /\ UNCHANGED vindex
    /\ VolumeIdle
    /\ PartIdle
    /\ FsIdle
    /\ ContextIdle
    /\ FormatIdle

VolumeGetByFslabel ==
    /\ \E fslabel \in Labels :
        vlook' = looked_up("fslabel", fslabel, volume_get_by_fslabel(vindex, fslabel))
    /\ UNCHANGED vindex
    /\ VolumeIdle
    /\ PartIdle
    /\ FsIdle
    /\ ContextIdle
    /\ FormatIdle

VolumeGetByCoord ==
    /\ \E optical \in BOOLEAN, drive \in 1..2, partition \in 0..2 :
        vlook' = looked_up("coord", <<optical, drive, partition>>,
                           volume_get_by_coord(vindex, optical, drive, partition))
    /\ UNCHANGED vindex
    /\ VolumeIdle
    /\ PartIdle
    /\ FsIdle
    /\ ContextIdle
    /\ FormatIdle

-----------------------------------------------------------------------------
(* Properties of the volume index *)

\* the positions of the index whose volume answers to the last lookup
answering ==
    { i \in 1..Len(vlook.index) :
        LET v == vlook.index[i]
        IN  CASE vlook.called = "guid" ->
                   \/ v.guid_valid /\ v.guid = vlook.arg
                   \/ v.part_guid_valid /\ v.part_guid = vlook.arg
              [] vlook.called = "fslabel" -> v.fslabel_valid /\ v.fslabel = vlook.arg
              [] vlook.called = "coord" ->
                   <<v.is_optical, v.index, v.partition>> = vlook.arg
              [] OTHER -> FALSE }

\* C20: volume_get_by_guid(g) returns the registered volume at the lowest
\* position whose valid filesystem UUID or valid partition GUID equals g in
\* all 16 bytes, and null iff there is none; volume_get_by_fslabel does so
\* for the volumes whose valid label is the given one, case counting, and
\* volume_get_by_coord for the volumes with the given (is_optical, index,
\* partition); a lookup leaves the index and its volumes as they were.
C20_IndexLookup ==
    /\ vlook.called # "none" =>
          /\ vlook.ret = NULL_VOLUME <=> answering = {}
          /\ vlook.ret # NULL_VOLUME =>
                /\ vlook.ret \in answering
                /\ \A i \in answering : vlook.ret <= i
    /\ vlook.called # "none" => vindex = vlook.index

\* a lookup by GUID answered by the partition GUID of the second volume,
\* the first volume holding a GUID that differs in the last byte only
C20_Witness ==
    /\ vlook.called = "guid"
    /\ vlook.arg = GuidB
    /\ vlook.ret = 2
    /\ vindex[1].guid_valid /\ vindex[1].guid = GuidA
    /\ vindex[2].part_guid_valid /\ vindex[2].part_guid = GuidB

-----------------------------------------------------------------------------
(* Part 7: the ISO9660 driver over several volumes and calls: the list of
   contexts (iso9660_get_context, iso9660_cache_root, iso9660_find_PVD) and
   the memory of iso9660_open and iso9660_close

   A panic ends the program: no call follows one. *)

\* the root directory of the volumes: a file in two extents, the directory D,
\* a directory of size 0 and a directory that lies past the end of the device
CtxRoot ==
    { record(0, <<0>>, 2, 18, 2048, <<>>, 0),
      file_record(34, BIG, 128, 20, 3000),
      file_record(72, BIG, 0, 22, 100),
      file_record(110, <<"D">>, 2, 19, 2048),
      file_record(144, <<"Z">>, 2, 24, 0),
      file_record(178, <<"F">>, 2, 5000, 2048) }

\* the directory D: the directory E and a file
CtxDir ==
    { file_record(0, <<"E">>, 2, 21, 2048),
      file_record(34, <<"S", "U", "B", ";", "1">>, 0, 26, 10) }

\* the directory E: a file in two extents
CtxSub ==
    { file_record(0, <<"F", ";", "1">>, 128, 27, 2048),
      file_record(36, <<"F", ";", "1">>, 0, 28, 5) }

\* a volume of sects sectors with the volume descriptors descs and far_pvd,
\* the identifier of the first descriptor and the extent of the root record
ctx_image(descs, far_pvd, sects, identifier, root_lba, root_size) ==
    [iso_image(CtxRoot, root_size, 1, FALSE, <<>>)
        EXCEPT !.vol = [new_volume(<<0, sects, ISO9660_SECTOR_SIZE>>, 1, FALSE)
                           EXCEPT !.is_optical = TRUE],
               !.dev_sects = sects,
               !.identifier = identifier,
               !.root_lba = root_lba,
               !.dirs = (18 :> CtxRoot) @@ (19 :> CtxDir) @@ (21 :> CtxSub)]
    @@ [descs |-> descs, far_pvd |-> far_pvd]

\* the size of the devices that hold more sectors than the scan reads
FarSects == 300

CtxImages ==
    { ctx_image(<<1, 255>>, 0, IsoSects, "CD001", 18, 2048),
      ctx_image(<<0, 2, 1, 255>>, 0, IsoSects, "CD001", 18, 2048),
      \* the Terminator before the Primary Volume Descriptor
      ctx_image(<<0, 255, 1>>, 0, IsoSects, "CD001", 18, 2048),
      \* no Primary Volume Descriptor: the scan runs off the device, or up to
      \* its limit
      ctx_image(<<0>>, 0, IsoSects, "CD001", 18, 2048),
      ctx_image(<<0>>, 0, FarSects, "CD001", 18, 2048),
      \* the Primary Volume Descriptor is the last descriptor the scan reads,
      \* and the first one it does not read
      ctx_image(<<0>>, max_lba - 1, FarSects, "CD001", 18, 2048),
      ctx_image(<<0>>, max_lba, FarSects, "CD001", 18, 2048),
      \* root directories of no size, of more than 64 MiB, and past the device
      ctx_image(<<1, 255>>, 0, IsoSects, "CD001", 18, 0),
      ctx_image(<<1, 255>>, 0, IsoSects, "CD001", 18, ISO9660_MAX_DIR_SIZE + 1),
      ctx_image(<<1, 255>>, 0, IsoSects, "CD001", 40, 2048),
      \* not ISO9660, and a device that ends before the signature
      ctx_image(<<1, 255>>, 0, IsoSects, "NSR02", 18, 2048),
      ctx_image(<<1, 255>>, 0, 16, "CD001", 18, 2048) }

\* the volumes that stand next to any of the volumes above
CtxOthers ==
    { ctx_image(<<1, 255>>, 0, IsoSects, "CD001", 18, 2048),
      ctx_image(<<0, 255, 1>>, 0, IsoSects, "CD001", 18, 2048) }

\* a path component of as many characters as the buffer filename holds
LongComponent == [i \in 1..ROCK_RIDGE_MAX_FILENAME |-> "A"]

CtxPaths ==
    { <<>>, <<"/", "B", "I", "G">>, <<"N", "O", "N", "E">>,
      <<"D", "/", "E", "/", "F">>, <<"D", "/", "/", "E", "/">>,
      <<"D", "/", "N", "O", "N", "E">>, <<"Z", "/", "X">>, <<"F", "/", "X">>,
      LongComponent }

\* how many handles the callers of the model keep open
MaxOpen == 2

NoContextCall ==
    [op |-> "none", vol |-> 0, path |-> <<>>, ret |-> "none", panic |-> "no",
     slot |-> 0, mem |-> <<>>, scanned |-> <<>>, before |-> <<>>, held |-> {},
     context |-> no_context]

\* a block of a call as the memory keeps it: the blocks of a handle are told
\* apart by the slot of the handle
kept(mem, block, slot) ==
    [block |-> IF block[1] \in {"ret", "extents", "handle"} THEN <<block[1], slot>>
               ELSE block,
     size |-> size_of(mem, block)]

free_slot == CHOOSE h \in 1..MaxOpen : \A f \in handles : f.slot # h

\* iso9660_open of any path on any of the volumes
ContextOpen ==
    /\ mcall.ret # "panic"
    /\ Cardinality(handles) < MaxOpen
    /\ \E vol \in DOMAIN media, path \in CtxPaths :
        \E r \in {iso9660_open_vol(contexts, vol, media[vol], path)} :
          /\ mcall' = [op |-> "open", vol |-> vol, path |-> path, ret |-> r.ret,
                       panic |-> r.panic, slot |-> free_slot, mem |-> r.mem,
                       scanned |-> r.scanned, before |-> contexts, held |-> live,
                       context |-> r.context]
          /\ contexts' = r.contexts
          /\ live' = live \cup { kept(r.mem, b, free_slot) : b \in left(r.mem) }
          /\ handles' = IF r.ret = "handle"
                        THEN handles \cup {[slot |-> free_slot, vol |-> vol,
                                            extent_count |-> r.handle.extent_count]}
                        ELSE handles
    /\ UNCHANGED media
    /\ VolumeIdle
    /\ PartIdle
    /\ FsIdle
    /\ IndexIdle
    /\ FormatIdle

\* the memory events of iso9660_close(file)
iso9660_close(f) ==
    <<ev("free", "extents", f.slot, f.extent_count, "iso9660_extent"),
      ev("free", "ret", f.slot, 1, "iso9660_file_handle")>>

\* iso9660_close of an open handle, after which the caller frees the struct
\* file_handle
ContextClose ==
    /\ mcall.ret # "panic"
    /\ \E f \in handles :
        /\ mcall' = [NoContextCall EXCEPT !.op = "close", !.vol = f.vol, !.slot = f.slot,
                                          !.mem = iso9660_close(f), !.before = contexts,
                                          !.held = live]
        /\ live' = { b \in live :
                       /\ \A i \in 1..Len(iso9660_close(f)) :
                             iso9660_close(f)[i].block # b.block
                       /\ b.block # <<"handle", f.slot>> }
        /\ handles' = handles \ {f}
    /\ UNCHANGED <<media, contexts>>
    /\ VolumeIdle
    /\ PartIdle
    /\ FsIdle
    /\ IndexIdle
    /\ FormatIdle

-----------------------------------------------------------------------------
(* Properties of the ISO9660 driver over volumes and calls *)

\* C21: whatever the volume holds and whatever the path, iso9660_open hands
\* back a handle or null: a volume without a Primary Volume Descriptor before
\* the Terminator or within the scan limit, a volume descriptor that cannot
\* be read, a root directory of invalid size, a name that is too long and a
\* path component that is too long make it return null, never panic.
C21_PanicPolicy ==
    mcall.op = "open" => mcall.ret \in {"handle", "null"}

\* the events allocate a context node or a root buffer
caches_root(mem) ==
    \E i \in 1..Len(mem) : mem[i].op = "alloc" /\ mem[i].block[1] \in {"node", "root"}

\* C23: the list holds at most one context per volume; an open reads volume
\* descriptors and allocates a node and a root buffer only when the list
\* holds no context of the volume, and then puts the one context of the
\* volume at the head of the list; an open of a volume whose context the
\* list holds leaves the list as it is and works with that context, its
\* root buffer and its root_size.
C23_RootCachedOnce ==
    /\ \A i, j \in 1..Len(contexts) : contexts[i].vol = contexts[j].vol => i = j
    /\ mcall.op = "open" =>
          IF cached(mcall.before, mcall.vol) # {}
          THEN /\ mcall.scanned = <<>>
               /\ ~caches_root(mcall.mem)
               /\ contexts = mcall.before
               /\ \E i \in 1..Len(contexts) : contexts[i] = mcall.context
               /\ mcall.context.vol = mcall.vol
          ELSE \/ contexts = mcall.before
               \/ /\ contexts = <<mcall.context>> \o mcall.before
                  /\ mcall.context.vol = mcall.vol
                  /\ mcall.context.root = dir_buffer(media[mcall.vol], media[mcall.vol].root_lba,
                                                     media[mcall.vol].root_size)
                  /\ mcall.context.root_size = media[mcall.vol].root_size

\* a file opened on a volume whose context is the second of two in the list
C23_Witness ==
    /\ mcall.op = "open"
    /\ mcall.ret = "handle"
    /\ Len(mcall.before) = 2
    /\ mcall.before[2].vol = mcall.vol
    /\ contexts = mcall.before

\* the descriptor at lba of a volume can be read
desc_read(img, lba) ==
    iso_volume_read(img, lba * ISO9660_SECTOR_SIZE, ISO9660_SECTOR_SIZE).ret = "true"

\* C24: the descriptors that an open reads are those at LBA 16, 17, 18, ...
\* in this order and at most 256 of them; every one before the last was read
\* and is neither of type 1 nor of type 255; the scan succeeds when the last
\* is of type 1, fails for the Terminator when the last is of type 255, and
\* otherwise fails for the limit after 256 descriptors or for a descriptor
\* that could not be read; a volume without "CD001" at 0x8001 has no
\* descriptor read, and a volume with it and without a context has one
\* read at least.
C24_DescriptorScan ==
    mcall.op = "open" =>
      LET img == media[mcall.vol]
          n == Len(mcall.scanned)
          last_lba == ISO9660_FIRST_VOLUME_DESCRIPTOR + n - 1
      IN  /\ \A i \in 1..n : mcall.scanned[i] = ISO9660_FIRST_VOLUME_DESCRIPTOR + i - 1
          /\ n <= 256
          /\ \A i \in 1..(n - 1) :
                /\ desc_read(img, mcall.scanned[i])
                /\ descriptor_type(img, mcall.scanned[i]) \notin {1, 255}
          /\ img.identifier # "CD001" => n = 0
          /\ (img.identifier = "CD001" /\ img.dev_sects > ISO9660_FIRST_VOLUME_DESCRIPTOR
                 /\ cached(mcall.before, mcall.vol) = {}) => n > 0
          /\ n > 0 =>
                IF ~desc_read(img, last_lba) THEN mcall.panic = "read"
                ELSE IF descriptor_type(img, last_lba) = 1
                THEN mcall.panic \notin {"read", "terminator", "limit"}
                ELSE IF descriptor_type(img, last_lba) = 255
                THEN mcall.panic = "terminator"
                ELSE n = 256 /\ mcall.panic = "limit"

\* a file opened on a volume whose Primary Volume Descriptor is the third
\* descriptor
C24_Witness ==
    /\ mcall.op = "open"
    /\ mcall.scanned = <<16, 17, 18>>
    /\ descriptor_type(media[mcall.vol], 18) = 1
    /\ mcall.ret = "handle"

\* the positions of the events of an operation on a block
events_at(mem, op, block) ==
    { i \in 1..Len(mem) : mem[i].op = op /\ mem[i].block = block }

\* C30: an open that returns frees neither the root buffer of a context nor
\* the directory buffer it starts with; every directory buffer it allocates
\* is freed once, after its allocation; and no directory buffer is read
\* before its allocation or after its free.
C30_BufferLifetime ==
    (mcall.op = "open" /\ mcall.ret # "panic") =>
      /\ \A i \in 1..Len(mcall.mem) :
            mcall.mem[i].op = "free" =>
              /\ mcall.mem[i].block[1] # "root"
              /\ mcall.mem[i].block # <<"current", 0>>
      /\ \A n \in 1..dirs_allocated(mcall.mem) :
            /\ Cardinality(events_at(mcall.mem, "alloc", <<"current", n>>)) = 1
            /\ Cardinality(events_at(mcall.mem, "free", <<"current", n>>)) = 1
            /\ \A a \in events_at(mcall.mem, "alloc", <<"current", n>>),
                  f \in events_at(mcall.mem, "free", <<"current", n>>) :
                  /\ a < f
                  /\ \A r \in events_at(mcall.mem, "read", <<"current", n>>) : a < r /\ r < f
      /\ \A i \in 1..Len(mcall.mem) :
            mcall.mem[i].block[1] = "current" =>
              mcall.mem[i].block[2] \in 0..dirs_allocated(mcall.mem)

\* a file of two extents opened two directories below the root: both
\* directory buffers are read, and the second one by the extent collection
C30_Witness ==
    /\ mcall.op = "open"
    /\ mcall.ret = "handle"
    /\ dirs_allocated(mcall.mem) = 2
    /\ Cardinality(events_at(mcall.mem, "read", <<"current", 2>>)) >= 3
    /\ \E i \in 1..Len(mcall.mem) :
          mcall.mem[i] = ev("alloc", "extents", 0, 2, "iso9660_extent")

-----------------------------------------------------------------------------
(* Part 8: the BIOS parameter block (fat32_init_context)

   A BPB b is the first sector of the volume as volume_read delivers it:
   b.read tells whether the read succeeded, b.signatures holds the offsets
   at which a FAT signature stands ("FAT" at 0x36 and 0x52, "FAT32" at
   0x03), and the other fields are those of struct fat32_bpb.  The fields of
   the model are small enough for the 64-bit sums of the code to fit TLC's
   integers. *)

\* x > UINT32_MAX
above_UINT32_MAX(x) == x \div 4 >= 2^30

root_dir_sects(b) ==
    ((b.root_entries_count * 32) + (b.bytes_per_sector - 1)) \div b.bytes_per_sector

total_sects(b) ==
    IF b.sectors_count_16 # 0 THEN b.sectors_count_16 ELSE b.sectors_count_32

\* the local sectors_per_fat of fat32_init_context
metadata_sectors_per_fat(b) ==
    IF b.sectors_per_fat_16 # 0 THEN b.sectors_per_fat_16 ELSE b.sectors_per_fat_32

metadata_sects(b) ==
    b.reserved_sectors + (b.fats_count * metadata_sectors_per_fat(b)) + root_dir_sects(b)

clusters_count(b) ==
    (total_sects(b) - metadata_sects(b)) \div b.sectors_per_cluster

\* mutant of fat_type: the limit of FAT12 one cluster higher
fat_type_4086(count) ==
    IF count < 4086 THEN 12 ELSE IF count < 65525 THEN 16 ELSE 32

fat_type(count) ==
    IF count < 4085 THEN 12 ELSE IF count < 65525 THEN 16 ELSE 32

no_fat_context ==
    [type |-> 0, bytes_per_sector |-> 0, sectors_per_cluster |-> 0,
     reserved_sectors |-> 0, number_of_fats |-> 0, hidden_sectors |-> 0,
     sectors_per_fat |-> 0, root_directory_cluster |-> 0, fat_start_lba |-> 0,
     root_entries |-> 0, root_start |-> 0, root_size |-> 0, data_start_lba |-> 0]

rejected == [ret |-> 1, context |-> no_fat_context]

\* the fields of the context from context->bytes_per_sector on, for a type
fill_context(b, type) ==
    LET sectors_per_fat == IF type = 32 THEN b.sectors_per_fat_32 ELSE b.sectors_per_fat_16
        root_start_64 == b.reserved_sectors + b.fats_count * sectors_per_fat
        root_size == (b.root_entries_count * 32 + b.bytes_per_sector - 1)
                        \div b.bytes_per_sector
    IN  IF sectors_per_fat = 0 THEN rejected
        ELSE IF above_UINT32_MAX(root_start_64) THEN rejected
        ELSE IF type # 32 /\ above_UINT32_MAX(root_start_64 + root_size) THEN rejected
        ELSE [ret |-> 0,
              context |->
                [type |-> type,
                 bytes_per_sector |-> b.bytes_per_sector,
                 sectors_per_cluster |-> b.sectors_per_cluster,
                 reserved_sectors |-> b.reserved_sectors,
                 number_of_fats |-> b.fats_count,
                 hidden_sectors |-> b.hidden_sectors_count,
                 sectors_per_fat |-> sectors_per_fat,
                 root_directory_cluster |-> b.root_directory_cluster,
                 fat_start_lba |-> b.reserved_sectors,
                 root_entries |-> b.root_entries_count,
                 root_start |-> root_start_64,
                 root_size |-> root_size,
                 data_start_lba |-> IF type = 32 THEN root_start_64
                                    ELSE root_start_64 + root_size]]

\* fat32_init_context(context, part) up to the lookup of the volume label:
\* [ret, context]; the lookup (get_label) changes neither
fat32_init_context(b) ==
    IF ~b.read THEN rejected
    ELSE IF b.signatures = {} THEN rejected
    ELSE IF b.sectors_per_cluster \notin {1, 2, 4, 8, 16, 32, 64, 128} THEN rejected
    ELSE IF b.bytes_per_sector \notin {512, 1024, 2048, 4096} THEN rejected
    ELSE IF b.fats_count = 0 \/ b.fats_count > 4 THEN rejected
    ELSE IF metadata_sects(b) >= total_sects(b) THEN rejected
    ELSE fill_context(b, fat_type(clusters_count(b)))

-----------------------------------------------------------------------------
(* The BPBs and the call of the model *)

\* the fields that the sector counts are computed from
BpbShapes ==
    [bytes_per_sector : {512, 4096, 1000}, sectors_per_cluster : {1, 128, 3},
     reserved_sectors : {1}, fats_count : {0, 1, 4, 5},
     root_entries_count : {0, 17},
     sectors_per_fat_16 : {0, 1, 9}, sectors_per_fat_32 : {0, 1, 9}]

\* cluster counts at the limits of the types
BpbClusters == {0, 1, 4084, 4085, 65524, 65525}

\* the BPB of a shape whose sector count is that of the metadata, k clusters
\* and slack sectors more, held in the 16-bit field, the 32-bit field or
\* (with another value in the 32-bit field) both
bpb_of(s, k, slack, place, signatures, read) ==
    [read |-> read, signatures |-> signatures,
     bytes_per_sector |-> s.bytes_per_sector,
     sectors_per_cluster |-> s.sectors_per_cluster,
     reserved_sectors |-> s.reserved_sectors,
     fats_count |-> s.fats_count,
     root_entries_count |-> s.root_entries_count,
     sectors_count_16 |-> IF place = "32" THEN 0
                          ELSE metadata_sects(s) + k * s.sectors_per_cluster + slack,
     sectors_per_fat_16 |-> s.sectors_per_fat_16,
     hidden_sectors_count |-> 0,
     sectors_count_32 |-> IF place = "32"
                          THEN metadata_sects(s) + k * s.sectors_per_cluster + slack
                          ELSE IF place = "both" THEN 70000 ELSE 0,
     sectors_per_fat_32 |-> s.sectors_per_fat_32,
     root_directory_cluster |-> 2]

\* a BPB whose fields have the widths of struct fat32_bpb
fits(b) == b.sectors_count_16 \in 0..65535 /\ b.sectors_count_32 >= 0

\* no BPB read
no_bpb ==
    [read |-> FALSE, signatures |-> {}, bytes_per_sector |-> 0, sectors_per_cluster |-> 0,
     reserved_sectors |-> 0, fats_count |-> 0, root_entries_count |-> 0,
     sectors_count_16 |-> 0, sectors_per_fat_16 |-> 0, hidden_sectors_count |-> 0,
     sectors_count_32 |-> 0, sectors_per_fat_32 |-> 0, root_directory_cluster |-> 0]

NoInit == [called |-> FALSE, ret |-> 0, context |-> no_fat_context]

\* fat32_init_context on the BPB of the volume
FatInitContext ==
    /\ ~finit.called
    /\ finit' = [called |-> TRUE] @@ fat32_init_context(bpb)
    /\ UNCHANGED <<bpb, nconv>>
    /\ VolumeIdle
    /\ PartIdle
    /\ FsIdle
    /\ IndexIdle
    /\ ContextIdle

MaxName == 13

\* names of up to MaxName characters, with and without dots, and names in
\* upper and mixed case
Names ==
    UNION { [1..n -> {"a", "."}] : n \in 0..MaxName }
      \cup { <<"X">>, <<"x", ".", "B">>, <<"a", "B", "x">>, <<"A", ".", "b", "x", "X">> }

NoConv == [called |-> FALSE, src |-> <<>>, ok |-> FALSE, dest |-> <<>>]

\* fat32_filename_to_8_3(dest, src) on any of the names
FilenameTo83 ==
    /\ ~nconv.called
    /\ \E src \in Names :
         nconv' = [called |-> TRUE, src |-> src] @@ fat32_filename_to_8_3(src)
    /\ UNCHANGED <<bpb, finit>>
    /\ VolumeIdle
    /\ PartIdle
    /\ FsIdle
    /\ IndexIdle
    /\ ContextIdle

-----------------------------------------------------------------------------
(* Properties of fat32_init_context and fat32_filename_to_8_3 *)

\* the smallest number of units of size d that hold n
ceil_div(n, d) == CHOOSE q \in 0..n : q * d >= n /\ (q = 0 \/ (q - 1) * d < n)

\* C25: a BPB whose metadata sectors (reserved + FAT count x sectors per FAT +
\* root directory sectors, the sectors per FAT and the total being the 16-bit
\* field if non-zero, else the 32-bit one) are not fewer than its total
\* sectors is rejected; an accepted context has the type that the cluster
\* count (total - metadata) / sectors_per_cluster gives with the limits 4085
\* and 65525, bytes_per_sector in {512, 1024, 2048, 4096}, sectors_per_cluster
\* a power of two in 1..128, 1 to 4 FATs and a non-zero sectors_per_fat equal
\* to the one of the metadata computation.
C25_TypeDetection ==
    finit.called =>
      LET total == IF bpb.sectors_count_16 # 0 THEN bpb.sectors_count_16
                   ELSE bpb.sectors_count_32
          per_fat == IF bpb.sectors_per_fat_16 # 0 THEN bpb.sectors_per_fat_16
                     ELSE bpb.sectors_per_fat_32
          metadata == bpb.reserved_sectors + bpb.fats_count * per_fat
                      + ceil_div(bpb.root_entries_count * 32, bpb.bytes_per_sector)
          c == finit.context
      IN  /\ metadata >= total => finit.ret # 0
          /\ finit.ret = 0 =>
               /\ c.type = (IF (total - metadata) \div c.sectors_per_cluster < 4085 THEN 12
                            ELSE IF (total - metadata) \div c.sectors_per_cluster < 65525
                            THEN 16 ELSE 32)
               /\ c.bytes_per_sector \in {512, 1024, 2048, 4096}
               /\ c.sectors_per_cluster \in { 2^e : e \in 0..7 }
               /\ c.number_of_fats \in 1..4
               /\ c.sectors_per_fat # 0
               /\ c.sectors_per_fat = per_fat

\* the characters of a name before its first dot, and those after it
before_dot(src) ==
    IF \E i \in 1..Len(src) : src[i] = "."
    THEN SubSeq(src, 1, (CHOOSE i \in 1..Len(src) :
                           src[i] = "." /\ \A k \in 1..(i - 1) : src[k] # ".") - 1)
    ELSE src
after_dot(src) == SubSeq(src, Len(before_dot(src)) + 2, Len(src))

\* the 11-byte field of a name and an extension, in upper case, padded with
\* spaces
field_8_3(name, ext) ==
    [k \in 1..(8 + 3) |->
        IF k <= Len(name) THEN toupper(name[k])
        ELSE IF k > 8 /\ k - 8 <= Len(ext) THEN toupper(ext[k - 8])
        ELSE SPACE]

\* C26: fat32_filename_to_8_3 returns true exactly for the names with at most
\* one '.', 1 to 8 characters before it and 0 to 3 after it, and then dest
\* holds the name in upper case in bytes 0..7 and the extension in upper case
\* in bytes 8..10, both padded with spaces.
C26_Name83 ==
    nconv.called =>
      /\ nconv.ok <=> /\ Cardinality({ i \in 1..Len(nconv.src) : nconv.src[i] = "." }) <= 1
                      /\ Len(before_dot(nconv.src)) \in 1..8
                      /\ Len(after_dot(nconv.src)) \in 0..3
      /\ nconv.ok => nconv.dest = field_8_3(before_dot(nconv.src), after_dot(nconv.src))

-----------------------------------------------------------------------------
(* Specifications *)

\* the parts that a specification does not exercise
NoFat == fat_image(12, 1, 1, (2 :> EOC(12)) @@ (3 :> EOC(12)), 0, 0)

FatAtRest ==
    /\ fatfs = NoFat
    /\ fopen = NoOpen
    /\ fread = NoRead

NoIso == iso_image({}, ISO9660_SECTOR_SIZE, 1, FALSE, <<>>)

IsoAtRest ==
    /\ iso = NoIso
    /\ iopen = NoIsoOpen
    /\ iread = NoIsoRead

PathAtRest ==
    /\ gcall = NoPathCall
    /\ gres = NoPathResult

IndexAtRest ==
    /\ vindex = <<>>
    /\ vlook = NoLookup

ContextAtRest ==
    /\ media = <<>>
    /\ contexts = <<>>
    /\ live = {}
    /\ handles = {}
    /\ mcall = NoContextCall

FormatAtRest ==
    /\ bpb = no_bpb
    /\ finit = NoInit
    /\ nconv = NoConv

VolumeAtRest ==
    /\ volume = NoTable.parent
    /\ refvol = volume
    /\ last = NoCall
    /\ reflast = NoCall
    /\ disk = NO_CALLS
    /\ probe = NoProbe
    /\ pstep = NoStep
    /\ ptable = NoTable
    /\ pget = NoGet

\* any volume, read any number of times, over a blank disk
Init ==
    /\ InitVolume
    /\ ptable = NoTable
    /\ pget = NoGet
    /\ FatAtRest
    /\ IsoAtRest
    /\ PathAtRest
    /\ IndexAtRest
    /\ ContextAtRest
    /\ FormatAtRest

Next == VolumeRead

Spec == Init /\ [][Next]_vars

\* one ranged read, then the 1-byte reads of the same range
NextBytes == ProbeRead \/ ByteReads

SpecBytes == Init /\ [][NextBytes]_vars

\* every call made on the volume and on its copy without cache
NextRef == VolumeReadBoth

SpecRef == Init /\ [][NextRef]_vars

\* part_get on any of the disks, for one index and then the next ones
InitPart ==
    /\ ptable \in Images
    /\ pget = NoGet
    /\ volume = ptable.parent
    /\ refvol = volume
    /\ last = NoCall
    /\ reflast = NoCall
    /\ disk = NO_CALLS
    /\ probe = NoProbe
    /\ pstep = NoStep
    /\ FatAtRest
    /\ IsoAtRest
    /\ PathAtRest
    /\ IndexAtRest
    /\ ContextAtRest
    /\ FormatAtRest

NextPart == PartGet \/ PartGetNext

SpecPart == InitPart /\ [][NextPart]_vars

\* fat32_open, fat32_read and fat32_close on any of the FAT images
InitFat ==
    /\ fatfs \in FatImages
    /\ fopen = NoOpen
    /\ fread = NoRead
    /\ VolumeAtRest
    /\ IsoAtRest
    /\ PathAtRest
    /\ IndexAtRest
    /\ ContextAtRest
    /\ FormatAtRest

NextFat == FatOpen \/ FatRead \/ FatClose

SpecFat == InitFat /\ [][NextFat]_vars

\* iso9660_open, iso9660_read and iso9660_close on any of the ISO9660 images
InitIso ==
    /\ iso \in IsoImages
    /\ iopen = NoIsoOpen
    /\ iread = NoIsoRead
    /\ VolumeAtRest
    /\ FatAtRest
    /\ PathAtRest
    /\ IndexAtRest
    /\ ContextAtRest
    /\ FormatAtRest

NextIso == IsoOpen \/ IsoRead \/ IsoClose

SpecIso == InitIso /\ [][NextIso]_vars

\* get_absolute_path on any path, working directory, size and memory, and
\* once more on its result
InitPath ==
    /\ gcall \in [path : Paths, pwd : Pwds, size : 0..MaxSize, out : Memories]
    /\ gres = NoPathResult
    /\ VolumeAtRest
    /\ FatAtRest
    /\ IsoAtRest
    /\ IndexAtRest
    /\ ContextAtRest
    /\ FormatAtRest

NextPath == GetAbsolutePath \/ GetAbsolutePathAgain

SpecPath == InitPath /\ [][NextPath]_vars

\* lookups in any index of up to MaxVolumes registered volumes
InitIndex ==
    /\ vindex \in UNION { [1..n -> Registered] : n \in 0..MaxVolumes }
    /\ vlook = NoLookup
    /\ VolumeAtRest
    /\ FatAtRest
    /\ IsoAtRest
    /\ PathAtRest
    /\ ContextAtRest
    /\ FormatAtRest

NextIndex == VolumeGetByGuid \/ VolumeGetByFslabel \/ VolumeGetByCoord

SpecIndex == InitIndex /\ [][NextIndex]_vars

\* iso9660_open and iso9660_close on two of the ISO9660 volumes, from the
\* start of the program
InitContext ==
    /\ media \in { m \in { <<a, b>> : a \in CtxImages, b \in CtxOthers } :
                      m[1].dev_sects = FarSects => m[2].descs = <<1, 255>> }
    /\ contexts = <<>>
    /\ live = {}
    /\ handles = {}
    /\ mcall = NoContextCall
    /\ VolumeAtRest
    /\ FatAtRest
    /\ IsoAtRest
    /\ PathAtRest
    /\ IndexAtRest
    /\ FormatAtRest

NextContext == ContextOpen \/ ContextClose

SpecContext == InitContext /\ [][NextContext]_vars

\* fat32_init_context on the BPBs of every shape and cluster count that have
\* a signature, and on those of every shape with and without signatures,
\* read or not
InitBpb ==
    /\ \E s \in BpbShapes :
         \/ \E k \in BpbClusters, slack \in {-1, 0, 127}, place \in {"16", "32", "both"} :
               bpb = bpb_of(s, k, slack, place, {"0x36"}, TRUE)
         \/ \E signatures \in {{}, {"0x36"}, {"0x52"}, {"0x03"}, {"0x36", "0x03"}},
               read \in BOOLEAN :
               bpb = bpb_of(s, 4085, 0, "32", signatures, read)
    /\ fits(bpb)
    /\ finit = NoInit
    /\ nconv = NoConv
    /\ VolumeAtRest
    /\ FatAtRest
    /\ IsoAtRest
    /\ PathAtRest
    /\ IndexAtRest
    /\ ContextAtRest

NextBpb == FatInitContext

SpecBpb == InitBpb /\ [][NextBpb]_vars

\* fat32_filename_to_8_3 on any of the names
InitName ==
    /\ FormatAtRest
    /\ VolumeAtRest
    /\ FatAtRest
    /\ IsoAtRest
    /\ PathAtRest
    /\ IndexAtRest
    /\ ContextAtRest

NextName == FilenameTo83

SpecName == InitName /\ [][NextName]_vars

====
